---------------------------- MODULE Spec2Model ----------------------------
(***************************************************************************)
(* Model of the claim parsers of ip_tools.                                 *)
(*                                                                         *)
(* Part I  - ClaimsParser (uspto_publications/utils.py): the regex-based   *)
(*           splitter/parser of USPTO PPUBS claim text.                    *)
(*                                                                         *)
(* A text is a sequence of symbols.  A symbol is one character, or one     *)
(* fixed word that every regular expression of the module treats as a      *)
(* unit ("claim", "and", "Iadd", "anyOfTheForegoing", "None"): none of     *)
(* these words contains a digit, a dot, a bracket, a separator or white    *)
(* space, so no match can begin or end inside one of them.                 *)
(***************************************************************************)
EXTENDS Integers, Sequences, FiniteSets, TLC

---------------------------------------------------------------------------
(* Character classes                                                       *)

Digits == {"0", "1", "2", "3", "4", "5", "6", "7", "8", "9"}

\* \s : white space
WS == {" ", "\n"}

\* [\d\-\.] of SPLIT_RE
NumRunChars == Digits \cup {"-", "."}

\* [\d,or ] of DEPENDENCY_RE
DepListChars == Digits \cup {",", "o", "r", " "}

\* [:;] of LIMITATION_RE
Separators == {":", ";"}

\* Python's None among strings: a value that is no text of the alphabet.
None == <<"<None>">>

DigitVal(c) ==
  CASE c = "0" -> 0 [] c = "1" -> 1 [] c = "2" -> 2 [] c = "3" -> 3
    [] c = "4" -> 4 [] c = "5" -> 5 [] c = "6" -> 6 [] c = "7" -> 7
    [] c = "8" -> 8 [] c = "9" -> 9

DigitChar(d) ==
  CASE d = 0 -> "0" [] d = 1 -> "1" [] d = 2 -> "2" [] d = 3 -> "3"
    [] d = 4 -> "4" [] d = 5 -> "5" [] d = 6 -> "6" [] d = 7 -> "7"
    [] d = 8 -> "8" [] d = 9 -> "9"

---------------------------------------------------------------------------
(* Generic sequence helpers                                                *)

\* The index after the maximal run of symbols of class C that starts at i.
RECURSIVE RunEnd(_, _, _)
RunEnd(s, i, C) ==
  IF i <= Len(s) /\ s[i] \in C THEN RunEnd(s, i + 1, C) ELSE i

\* The index before the maximal run of symbols of class C that ends at i.
RECURSIVE RunStart(_, _, _)
RunStart(s, i, C) ==
  IF i >= 1 /\ s[i] \in C THEN RunStart(s, i - 1, C) ELSE i

\* The index after the maximal run of symbols outside class C that starts at i.
RECURSIVE RunEndNot(_, _, _)
RunEndNot(s, i, C) ==
  IF i <= Len(s) /\ s[i] \notin C THEN RunEndNot(s, i + 1, C) ELSE i

RECURSIVE Flatten(_)
Flatten(ss) == IF ss = <<>> THEN <<>> ELSE Head(ss) \o Flatten(Tail(ss))

\* sep.join(parts)
RECURSIVE Join(_, _)
Join(parts, sep) ==
  IF parts = <<>> THEN <<>>
  ELSE IF Len(parts) = 1 THEN parts[1]
  ELSE parts[1] \o sep \o Join(Tail(parts), sep)

HasSym(s, C) == \E i \in 1..Len(s) : s[i] \in C

\* int(digits): the value of a non-empty digit string
RECURSIVE int(_)
int(ds) ==
  IF Len(ds) = 1 THEN DigitVal(ds[1])
  ELSE 10 * int(SubSeq(ds, 1, Len(ds) - 1)) + DigitVal(ds[Len(ds)])

\* str(n) for n >= 0
RECURSIVE str(_)
str(n) == IF n < 10 THEN <<DigitChar(n)>> ELSE str(n \div 10) \o <<DigitChar(n % 10)>>

\* str.strip()
strip(s) ==
  LET a == RunEnd(s, 1, WS)
      b == RunStart(s, Len(s), WS)
  IN  IF a > b THEN <<>> ELSE SubSeq(s, a, b)

\* WHITESPACE_RE.sub(" ", text): every maximal white-space run becomes one space
WHITESPACE_RE_sub(s) ==
  LET kept == SelectSeq([i \in 1..Len(s) |-> i],
                        LAMBDA i : s[i] \notin WS \/ i = 1 \/ s[i - 1] \notin WS)
  IN  [k \in 1..Len(kept) |-> IF s[kept[k]] \in WS THEN " " ELSE s[kept[k]]]

clean_text(text) == strip(WHITESPACE_RE_sub(text))

---------------------------------------------------------------------------
(* SPLIT_RE, CLAIM_INTRO_RE, NUMERIC_RE                                    *)

\* The greatest j with lo < j < hi and s[j] = ".", or 0.
RECURSIVE LastDot(_, _, _)
LastDot(s, lo, hi) ==
  IF hi - 1 <= lo THEN 0
  ELSE IF s[hi - 1] = "." THEN hi - 1 ELSE LastDot(s, lo, hi - 1)

\* [\d\-\.]+\.  at q: the index after the match, or 0 (greedy, backtracking
\* to the last dot of the run that has a run symbol before it).
RunThenDot(s, q) ==
  LET e == RunEnd(s, q, NumRunChars)
      j == LastDot(s, q, e)
  IN  IF j = 0 THEN 0 ELSE j + 1

\* [\d\-\.]+[\)\.]  at q
MarkerPlain(s, q) ==
  LET e == RunEnd(s, q, NumRunChars)
  IN  IF e = q THEN 0
      ELSE IF e <= Len(s) /\ s[e] = ")" THEN e + 1
      ELSE RunThenDot(s, q)

\* \.Iadd\.[\d\-\.]+\.  at q
MarkerIadd(s, q) ==
  IF q + 2 <= Len(s) /\ s[q] = "." /\ s[q + 1] = "Iadd" /\ s[q + 2] = "."
  THEN RunThenDot(s, q + 3) ELSE 0

\* \.\[[\d\-\.]+\.  at q
MarkerBracket(s, q) ==
  IF q + 1 <= Len(s) /\ s[q] = "." /\ s[q + 1] = "["
  THEN RunThenDot(s, q + 2) ELSE 0

\* The alternation of SPLIT_RE at q, alternatives tried in order.
MarkerEnd(s, q) ==
  IF MarkerPlain(s, q) # 0 THEN MarkerPlain(s, q)
  ELSE IF MarkerIadd(s, q) # 0 THEN MarkerIadd(s, q)
  ELSE MarkerBracket(s, q)

\* ^ under re.MULTILINE
LineStart(s, p) == p = 1 \/ (p >= 2 /\ p <= Len(s) + 1 /\ s[p - 1] = "\n")

\* SPLIT_RE matches at p: ^\s*( ... )
SPLIT_RE_match(s, p) ==
  LineStart(s, p) /\ MarkerEnd(s, RunEnd(s, p, WS)) # 0

\* The first p >= from at which SPLIT_RE matches, or 0.
RECURSIVE SPLIT_RE_search(_, _)
SPLIT_RE_search(s, from) ==
  IF from > Len(s) THEN 0
  ELSE IF SPLIT_RE_match(s, from) THEN from
  ELSE SPLIT_RE_search(s, from + 1)

\* SPLIT_RE.split(s): text, marker, text, marker, ..., text
RECURSIVE SPLIT_RE_split_from(_, _)
SPLIT_RE_split_from(s, from) ==
  LET p == SPLIT_RE_search(s, from)
  IN  IF p = 0 THEN <<SubSeq(s, from, Len(s))>>
      ELSE LET q == RunEnd(s, p, WS)
               e == MarkerEnd(s, q)
           IN  <<SubSeq(s, from, p - 1), SubSeq(s, q, e - 1)>>
               \o SPLIT_RE_split_from(s, e)

SPLIT_RE_split(s) == SPLIT_RE_split_from(s, 1)

\* CLAIM_INTRO_RE.sub("", text): ^[^\d\.\[]+ (no MULTILINE) is removed
CLAIM_INTRO_RE_sub(s) ==
  SubSeq(s, RunEndNot(s, 1, Digits \cup {".", "["}), Len(s))

NUMERIC_RE_search(s) == HasSym(s, Digits)

---------------------------------------------------------------------------
(* ClaimsParser._split_and_clean_claims                                    *)

\* while claim_strs and not NUMERIC_RE.search(claim_strs[0]): claim_strs.pop(0)
RECURSIVE DropNonNumeric(_)
DropNonNumeric(strs) ==
  IF strs # <<>> /\ ~NUMERIC_RE_search(strs[1])
  THEN DropNonNumeric(Tail(strs)) ELSE strs

\* _grouper(iterable, 2, fillvalue): consecutive pairs, the last one filled
RECURSIVE grouper(_, _)
grouper(strs, fillvalue) ==
  IF strs = <<>> THEN <<>>
  ELSE IF Len(strs) = 1 THEN << <<strs[1], fillvalue>> >>
  ELSE << <<strs[1], strs[2]>> >> \o grouper(SubSeq(strs, 3, Len(strs)), fillvalue)

\* lines 63-67: the (claim_number, claim_body) pairs the loop runs over
Grouped(claim_text) ==
  LET cleaned    == CLAIM_INTRO_RE_sub(claim_text)
      pieces     == SPLIT_RE_split(cleaned)
      claim_strs == [i \in 1..Len(pieces) |-> strip(pieces[i])]
  IN  grouper(DropNonNumeric(claim_strs), None)

\* claim_number.replace(".", "")
RECURSIVE RemoveDots(_)
RemoveDots(s) ==
  IF s = <<>> THEN <<>>
  ELSE IF s[1] = "." THEN RemoveDots(Tail(s)) ELSE <<s[1]>> \o RemoveDots(Tail(s))

\* re.split(r"[^\d]+", s)
RECURSIVE NonDigitSplit(_)
NonDigitSplit(s) ==
  LET e == RunEnd(s, 1, Digits)
  IN  IF e > Len(s) THEN <<s>>
      ELSE <<SubSeq(s, 1, e - 1)>>
           \o NonDigitSplit(SubSeq(s, RunEndNot(s, e, Digits), Len(s)))

\* f"{claim_body}": None is formatted as the word None
Format(v) == IF v = None THEN <<"None">> ELSE v

\* int(start), int(end) of line 75 raise ValueError on an empty string
RangeRaises(claim_number) ==
  LET parts == NonDigitSplit(RemoveDots(claim_number))
  IN  Len(parts) < 2 \/ parts[1] = <<>> \/ parts[2] = <<>>

\* the slip range(int(start), int(end)): the last number of the range is left out
RangeNumbersEndExcluded(start, end) == [k \in 1..(end - start) |-> start + k - 1]

\* range(int(start), int(end) + 1)
RangeNumbers(start, end) == [k \in 1..(end + 1 - start) |-> start + k - 1]

\* lines 72-76, for a claim_number that holds a hyphen and does not raise
ExpandRange(claim_number, claim_body) ==
  LET parts == NonDigitSplit(RemoveDots(claim_number))
      nums  == RangeNumbers(int(parts[1]), int(parts[2]))
  IN  [k \in 1..Len(nums) |-> str(nums[k]) \o <<".", " ">> \o Format(claim_body)]

\* line 78: " ".join(part for part in (claim_number, claim_body) if part)
JoinParts(claim_number, claim_body) ==
  LET a == IF claim_number \in {<<>>, None} THEN <<>> ELSE <<claim_number>>
      b == IF claim_body \in {<<>>, None} THEN <<>> ELSE <<claim_body>>
  IN  Join(a \o b, <<" ">>)

\* One iteration of the loop of lines 69-78: the claim strings it appends.
ExpandGroup(claim_number, claim_body) ==
  IF claim_number = None THEN <<>>
  ELSE IF HasSym(claim_number, {"-"})
       THEN ExpandRange(claim_number, claim_body)
       ELSE <<JoinParts(claim_number, claim_body)>>

GroupRaises(claim_number, claim_body) ==
  claim_number # None /\ HasSym(claim_number, {"-"}) /\ RangeRaises(claim_number)

---------------------------------------------------------------------------
(* ClaimsParser._parse_claim_string and ClaimsParser._parse_dependency     *)

\* NUMBER_RE = (?P<number>\d+)[\)\.]\s+  matches at i
NUMBER_RE_match(s, i) ==
  /\ i <= Len(s) /\ s[i] \in Digits
  /\ LET e == RunEnd(s, i, Digits)
     IN  e + 1 <= Len(s) /\ s[e] \in {")", "."} /\ s[e + 1] \in WS

\* NUMBER_RE.search(s): the first i at which it matches, or 0
RECURSIVE NUMBER_RE_search(_, _)
NUMBER_RE_search(s, i) ==
  IF i > Len(s) THEN 0
  ELSE IF NUMBER_RE_match(s, i) THEN i
  ELSE NUMBER_RE_search(s, i + 1)

\* NUMBER_RE.sub("", text, count=1), for a match at i
NUMBER_RE_sub(s, i) ==
  SubSeq(s, 1, i - 1) \o SubSeq(s, RunEnd(s, RunEnd(s, i, Digits) + 1, WS), Len(s))

\* LIMITATION_RE = (\s*[:;]\s*and|\s*[:;]\s*)  matches at i
LIMITATION_RE_match(s, i) ==
  LET q == RunEnd(s, i, WS) IN q <= Len(s) /\ s[q] \in Separators

\* the index after the match at i: the first alternative takes a following "and"
LIMITATION_RE_end(s, i) ==
  LET w == RunEnd(s, RunEnd(s, i, WS) + 1, WS)
  IN  IF w <= Len(s) /\ s[w] = "and" THEN w + 1 ELSE w

RECURSIVE LIMITATION_RE_search(_, _)
LIMITATION_RE_search(s, i) ==
  IF i > Len(s) THEN 0
  ELSE IF LIMITATION_RE_match(s, i) THEN i
  ELSE LIMITATION_RE_search(s, i + 1)

\* LIMITATION_RE.split(s): text, separator, text, separator, ..., text
RECURSIVE LIMITATION_RE_split_from(_, _)
LIMITATION_RE_split_from(s, from) ==
  LET i == LIMITATION_RE_search(s, from)
  IN  IF i = 0 THEN <<SubSeq(s, from, Len(s))>>
      ELSE LET e == LIMITATION_RE_end(s, i)
           IN  <<SubSeq(s, from, i - 1), SubSeq(s, i, e - 1)>>
               \o LIMITATION_RE_split_from(s, e)

LIMITATION_RE_split(s) == LIMITATION_RE_split_from(s, 1)

\* lines 92-94 and 97: the cleaned (text + separator) chunks, the empty ones dropped
Limitations(remainder) ==
  LET chunks  == grouper(LIMITATION_RE_split(remainder), <<>>)
      cleaned == [k \in 1..Len(chunks) |-> clean_text(chunks[k][1] \o chunks[k][2])]
  IN  SelectSeq(cleaned, LAMBDA lim : lim # <<>>)

\* DEPENDENCY_RE = claims? (?P<number>[\d,or ]+): where the number list of a
\* match at i starts, or 0
DEPENDENCY_RE_list(s, i) ==
  IF i > Len(s) \/ s[i] # "claim" THEN 0
  ELSE IF i + 3 <= Len(s) /\ s[i + 1] = "s" /\ s[i + 2] = " "
          /\ s[i + 3] \in DepListChars THEN i + 3
  ELSE IF i + 2 <= Len(s) /\ s[i + 1] = " " /\ s[i + 2] \in DepListChars THEN i + 2
  ELSE 0

RECURSIVE DEPENDENCY_RE_search(_, _)
DEPENDENCY_RE_search(s, i) ==
  IF i > Len(s) THEN 0
  ELSE IF DEPENDENCY_RE_list(s, i) # 0 THEN i
  ELSE DEPENDENCY_RE_search(s, i + 1)

\* DEPENDENT_CLAIMS_RE.finditer: the value of every maximal digit run
RECURSIVE DEPENDENT_CLAIMS_RE_finditer(_)
DEPENDENT_CLAIMS_RE_finditer(s) ==
  LET a == RunEndNot(s, 1, Digits)
      e == RunEnd(s, a, Digits)
  IN  IF a > Len(s) THEN <<>>
      ELSE <<int(SubSeq(s, a, e - 1))>>
           \o DEPENDENT_CLAIMS_RE_finditer(SubSeq(s, e, Len(s)))

\* DEPEND_ALL_RE.search
DEPEND_ALL_RE_search(s) ==
  \E i \in 1..Len(s) :
    /\ s[i] \in {"anyOfTheForegoing", "anyOfThePrevious"}
    /\ i + 3 <= Len(s)
    /\ s[i + 1] = " " /\ s[i + 2] = "claim" /\ s[i + 3] = "s"

parse_dependency(text, number) ==
  LET i == DEPENDENCY_RE_search(text, 1)
  IN  IF i # 0
      THEN LET a == DEPENDENCY_RE_list(text, i)
           IN  DEPENDENT_CLAIMS_RE_finditer(
                 SubSeq(text, a, RunEnd(text, a, DepListChars) - 1))
      ELSE IF DEPEND_ALL_RE_search(text)
           THEN [k \in 1..(number - 1) |-> k]
           ELSE <<>>

parse_claim_string(text) ==
  LET i == NUMBER_RE_search(text, 1)
  IN  IF i = 0
      THEN [number |-> 0, limitations |-> <<clean_text(text)>>,
            depends_on |-> <<>>, dependent_claims |-> <<>>]
      ELSE LET number    == int(SubSeq(text, i, RunEnd(text, i, Digits) - 1))
               remainder == NUMBER_RE_sub(text, i)
           IN  [number |-> number, limitations |-> Limitations(remainder),
                depends_on |-> parse_dependency(remainder, number),
                dependent_claims |-> <<>>]

---------------------------------------------------------------------------
(* ClaimsParser.parse, lines 54-59                                         *)

\* claim_dictionary.get(n): the position in claim_data of the claim the
\* dictionary holds for number n (a later claim replaces an earlier one with
\* the same number), or 0 for None
claim_dictionary_get(claim_data, n) ==
  LET idx == {i \in 1..Len(claim_data) : claim_data[i].number = n}
  IN  IF idx = {} THEN 0 ELSE CHOOSE i \in idx : \A j \in idx : j <= i

\* lines 56-59 for the claim at position c, from its d-th dependency on
RECURSIVE LinkClaim(_, _, _)
LinkClaim(claim_data, c, d) ==
  IF d > Len(claim_data[c].depends_on) THEN claim_data
  ELSE LET parent == claim_dictionary_get(claim_data, claim_data[c].depends_on[d])
           linked == IF parent # 0
                     THEN [claim_data EXCEPT ![parent].dependent_claims =
                                               Append(@, claim_data[c].number)]
                     ELSE claim_data
       IN  LinkClaim(linked, c, d + 1)

\* lines 55-59, from the claim at position c on
RECURSIVE LinkFrom(_, _)
LinkFrom(claim_data, c) ==
  IF c > Len(claim_data) THEN claim_data
  ELSE LinkFrom(LinkClaim(claim_data, c, 1), c + 1)

---------------------------------------------------------------------------
(* Input texts                                                             *)

MaxLines == 2

Lines ==
  { <<>>,
    <<"x">>,
    <<"x", "-", "y">>,
    <<"1", " ", "x">>,
    <<"1", ".", " ", "x">>,
    <<"2", ".">>,
    <<"1", ".", " ", "x", " ", "claim", " ", "1">>,
    <<"2", ".", " ", "x", " ", "claim", " ", "1">>,
    <<"2", ")", " ", "x", " ", "claim", "s", " ", "1", ",", " ", "2", " ", "o", "r", " ", "3", " ", "y">>,
    <<"2", ".", " ", "anyOfTheForegoing", " ", "claim", "s", ",", " ", "x">>,
    <<"2", ".", " ", "anyOfThePrevious", " ", "claim", "s", " ", "o", "r", " ", "x">>,
    <<"1", ".", " ", "x", ".", " ", "2", ".", " ", "y", " ", "claim", " ", "1">>,
    <<"1", "-", "2", ".", " ", "x", ":", " ", "y", ";", " ", "and", " ", "z">>,
    <<"1", "-", "2", ")", "x">>,
    <<"1", "-", "2", ".">>,
    <<"2", "-", "1", ".", " ", "x">>,
    <<"9", "-", "1", "1", ".", " ", "x">>,
    <<"1", "-", ".", " ", "x">>,
    <<".", "Iadd", ".", "2", ".", " ", "x">>,
    <<".", "[", "2", ".", " ", "x">>,
    <<".", "Iadd", ".", "1", "-", "2", ".", " ", "x">>,
    <<".", "[", "1", "-", "2", ".", " ", "x">> }

\* "1. A widget comprising: a frame; and a motor. 2. The widget of claim 1,
\* wherein the motor is electric."
WidgetText ==
  <<"1", ".", " ", "A widget comprising", ":", " ", "a frame", ";", " ", "and",
    " ", "a motor", ".", " ", "2", ".", " ", "The widget of", " ", "claim", " ",
    "1", ",", " ", "wherein the motor is electric", ".">>

\* the number of calls made with one input
MaxCalls == 2

Texts ==
  {<<>>, WidgetText}
  \cup { Join(ls, <<"\n">>) : ls \in UNION { [1..n -> Lines] : n \in 1..MaxLines } }

---------------------------------------------------------------------------
(* The parser as a state machine                                           *)

VARIABLES
  claim_text,     \* the argument of ClaimsParser.parse
  pc,             \* "call", "split", "parsed", "done" or "raised"; "idle": no call
  claim_strings,  \* the result of _split_and_clean_claims
  origin,         \* for each claim string, the pair of the loop that made it
  claim_data,     \* the list that parse builds and returns
  returned        \* what the calls made before this one returned or raised

\* google_patents.parsers.claims.extract_claims
VARIABLES
  document,                \* the argument: has it a claims container, and the
                           \* claim elements of the container in document order
  step,                    \* "call", "loop" or "done"; "idle": no call
  claim_elements,          \* the claim elements the loop has still to visit
  visited,                 \* the claim elements that produced a claim, in order
  found,                   \* for each of them, what _extract_limitations found
                           \* before the leading-number strip and the re-split
  claims,                  \* the first result
  structured_limitations,  \* the second result
  original_limitations,    \* the third result
  earlier                  \* what the calls made before this one returned

parser_vars == <<claim_text, pc, claim_strings, origin, claim_data, returned>>

extractor_vars ==
  <<document, step, claim_elements, visited, found, claims,
    structured_limitations, original_limitations, earlier>>

\* One call of a function that keeps no state between calls
VARIABLES
  call,      \* the function called and its argument
  outcome    \* Pending, or what the call returned or raised

call_vars == <<call, outcome>>

\* uspto_publications.client.PublicSearchClient, used by concurrent tasks
VARIABLES
  session_lock,   \* the task that holds _session_lock, or 0
  case_id,        \* _case_id: None, or the number of the session in digits
  access_token,   \* _access_token, set with _case_id
  where,          \* for each task, where it is in get_document
  attempt         \* for each task, the attempts of _request made so far

session_vars == <<session_lock, case_id, access_token, where, attempt>>

\* no PublicSearchClient is in use
SessionIdle ==
  /\ session_lock = 0
  /\ case_id = None
  /\ access_token = None
  /\ where = <<>>
  /\ attempt = <<>>

\* jpo.client.TokenManager, used by concurrent callers of get_token
VARIABLES
  token,          \* _token: None, or the access token stored last
  token_expiry,   \* _token_expiry, in seconds
  token_lock,     \* the caller that holds _lock, or 0
  now,            \* time.time(), in seconds
  caller,         \* for each caller, where it is in get_token
  got,            \* for each caller, what get_token returned or raised
  sent            \* for each caller, the token requests it has sent

token_vars == <<token, token_expiry, token_lock, now, caller, got, sent>>

\* no TokenManager is in use
TokenIdle ==
  /\ token = None
  /\ token_expiry = 0
  /\ token_lock = 0
  /\ now = 0
  /\ caller = <<>>
  /\ got = <<>>
  /\ sent = <<>>

\* core.base_client.BaseAsyncClient: one call of _request
VARIABLES
  max_retries,      \* _max_retries
  request_step,     \* where the call is in the loop of _request
  answers,          \* what the transport answered to each attempt so far
  request_outcome   \* Pending, or what _request returned or raised

request_vars == <<max_retries, request_step, answers, request_outcome>>


\* jpo.client.JpoClient with its RateLimiter, used by concurrent tasks
VARIABLES
  frames,          \* for each task, its calls of _request, the outer one first
  jpo_at,          \* for each task, where its innermost call of _request is
  jpo_result,      \* for each task, what the outer call returned or raised
  spare,           \* for each task, its acquire() calls that have returned less its API requests sent
  invalidations,   \* for each task, its calls of invalidate()
  timestamps,      \* RateLimiter._timestamps
  limiter_lock,    \* the task that holds RateLimiter._lock, or 0
  wake_at          \* the time the sleep of acquire() ends

jpo_vars ==
  <<frames, jpo_at, jpo_result, spare, invalidations,
    timestamps, limiter_lock, wake_at>>

\* google_patents.cache.CachingAsyncClient with its PatentCache, used by
\* concurrent tasks
VARIABLES
  html_cache,      \* the rows of the table html_cache, one for each url_hash
  ttl_seconds,     \* PatentCache.ttl_seconds
  use_cache,       \* whether the client was built with a cache
  cache_clock,     \* time.time()
  getting,         \* for each task, its call of CachingAsyncClient.get
  got_response,    \* for each task, what its call returned or raised
  ok_responses     \* the network responses with status 200, the latest for each URL

cache_vars ==
  <<html_cache, ttl_seconds, use_cache, cache_clock, getting, got_response,
    ok_responses>>

\* core.base_client.BaseAsyncClient objects and their HTTP clients
VARIABLES
  base_clients,    \* for each BaseAsyncClient, its fields and the calls made on it
  is_closed        \* for each HTTP client, whether it has been closed

owner_vars == <<base_clients, is_closed>>

\* uspto_publications.client.PublicSearchClient.download_pdf, called by
\* concurrent tasks
VARIABLES
  print_at,        \* for each task, where its call of download_pdf is
  print_status,    \* for each task, the printStatus of its print job at the server
  print_result     \* for each task, what download_pdf returned or raised

poll_vars == <<print_at, print_status, print_result>>

\* uspto_odp.clients.applications.ApplicationsClient.get_family
VARIABLES
  records,         \* the record the API has for each application
  batch_size,      \* the batch_size of the call
  family_at,       \* where the call of get_family is
  walk,            \* visited, to_visit, missing, and the keys of nodes and edges
  batch,           \* the batch that is being fetched
  requested,       \* the numbers that have been taken into a batch
  requested_again  \* the numbers that have been taken into a batch again

family_vars ==
  <<records, batch_size, family_at, walk, batch, requested, requested_again>>

vars == <<parser_vars, extractor_vars, call_vars, session_vars, token_vars, request_vars, jpo_vars, cache_vars, owner_vars, poll_vars, family_vars>>

\* what an action of ClaimsParser.parse leaves alone
outside_parser == <<extractor_vars, call_vars, session_vars, token_vars, request_vars, jpo_vars, cache_vars, owner_vars, poll_vars, family_vars>>

\* what an action of extract_claims leaves alone
outside_extractor == <<parser_vars, call_vars, session_vars, token_vars, request_vars, jpo_vars, cache_vars, owner_vars, poll_vars, family_vars>>

\* what a call of a function without state leaves alone
outside_call == <<parser_vars, extractor_vars, session_vars, token_vars, request_vars, jpo_vars, cache_vars, owner_vars, poll_vars, family_vars>>

\* what a step of a PublicSearchClient task leaves alone
outside_session == <<parser_vars, extractor_vars, call_vars, token_vars, request_vars, jpo_vars, cache_vars, owner_vars, poll_vars, family_vars>>

\* what the actions of TokenManager leave alone
outside_token == <<parser_vars, extractor_vars, call_vars, session_vars, request_vars, jpo_vars, cache_vars, owner_vars, poll_vars, family_vars>>

\* what the actions of BaseAsyncClient leave alone
outside_request == <<parser_vars, extractor_vars, call_vars, session_vars, token_vars, jpo_vars, cache_vars, owner_vars, poll_vars, family_vars>>

\* what the actions of JpoClient leave alone, its TokenManager apart
outside_jpo == <<parser_vars, extractor_vars, call_vars, session_vars, request_vars, cache_vars, owner_vars, poll_vars, family_vars>>

\* what the actions of CachingAsyncClient leave alone
outside_cache == <<parser_vars, extractor_vars, call_vars, session_vars, token_vars, request_vars, jpo_vars, owner_vars, poll_vars, family_vars>>

\* what the actions on a BaseAsyncClient leave alone
outside_owner == <<parser_vars, extractor_vars, call_vars, session_vars, token_vars, request_vars, jpo_vars, cache_vars, poll_vars, family_vars>>

\* what the actions of download_pdf leave alone
outside_poll == <<parser_vars, extractor_vars, call_vars, session_vars, token_vars, request_vars, jpo_vars, cache_vars, owner_vars, family_vars>>

\* what the actions of get_family leave alone
outside_family == <<parser_vars, extractor_vars, call_vars, session_vars, token_vars, request_vars, jpo_vars, cache_vars, owner_vars, poll_vars>>

Pending == [pending |-> TRUE]

Returns(value) == [returned |-> value]

Raises(exception) == [raised |-> exception]

IsReturn(o) == DOMAIN o = {"returned"}

IsRaise(o) == DOMAIN o = {"raised"}

\* no such call is under way
CallIdle ==
  /\ call = [function |-> "none"]
  /\ outcome = Pending

\* no BaseAsyncClient is in use
RequestIdle ==
  /\ max_retries = 0
  /\ request_step = "idle"
  /\ answers = <<>>
  /\ request_outcome = Pending

\* no JpoClient is in use
JpoIdle ==
  /\ frames = <<>>
  /\ jpo_at = <<>>
  /\ jpo_result = <<>>
  /\ spare = <<>>
  /\ invalidations = <<>>
  /\ timestamps = <<>>
  /\ limiter_lock = 0
  /\ wake_at = 0

\* no CachingAsyncClient is in use
CacheIdle ==
  /\ html_cache = {}
  /\ ttl_seconds = 0
  /\ use_cache = FALSE
  /\ cache_clock = 0
  /\ getting = <<>>
  /\ got_response = <<>>
  /\ ok_responses = {}

\* no BaseAsyncClient has been made
OwnerIdle ==
  /\ base_clients = <<>>
  /\ is_closed = <<>>

\* no call of download_pdf is under way
PollIdle ==
  /\ print_at = <<>>
  /\ print_status = <<>>
  /\ print_result = <<>>

\* no call of get_family is under way
FamilyIdle ==
  /\ records = <<>>
  /\ batch_size = 0
  /\ family_at = "idle"
  /\ walk = <<>>
  /\ batch = <<>>
  /\ requested = {}
  /\ requested_again = {}

\* no call of extract_claims is under way
ExtractorIdle ==
  /\ document = [has_container |-> FALSE, elements |-> <<>>]
  /\ step = "idle"
  /\ claim_elements = <<>>
  /\ visited = <<>>
  /\ found = <<>>
  /\ claims = <<>>
  /\ structured_limitations = <<>>
  /\ original_limitations = <<>>
  /\ earlier = <<>>

\* no call of ClaimsParser.parse is under way
ParserIdle ==
  /\ claim_text = <<>>
  /\ pc = "idle"
  /\ claim_strings = <<>>
  /\ origin = <<>>
  /\ claim_data = <<>>
  /\ returned = <<>>

Init ==
  /\ FamilyIdle
  /\ PollIdle
  /\ OwnerIdle
  /\ CacheIdle
  /\ JpoIdle
  /\ RequestIdle
  /\ TokenIdle
  /\ SessionIdle
  /\ claim_text \in Texts
  /\ pc = "call"
  /\ claim_strings = <<>>
  /\ origin = <<>>
  /\ claim_data = <<>>
  /\ returned = <<>>
  /\ ExtractorIdle
  /\ CallIdle

\* lines 50-51: if not claim_text: return []
ParseEmpty ==
  /\ pc = "call" /\ claim_text = <<>>
  /\ pc' = "done"
  /\ UNCHANGED <<claim_text, claim_strings, origin, claim_data>>
  /\ UNCHANGED returned
  /\ UNCHANGED outside_parser

\* line 52: _split_and_clean_claims returns
SplitAndCleanClaims ==
  /\ pc = "call" /\ claim_text # <<>>
  /\ LET grouped == Grouped(claim_text)
         made    == [g \in 1..Len(grouped) |-> ExpandGroup(grouped[g][1], grouped[g][2])]
     IN  /\ \A g \in 1..Len(grouped) : ~GroupRaises(grouped[g][1], grouped[g][2])
         /\ claim_strings' = Flatten(made)
         /\ origin' = Flatten([g \in 1..Len(grouped) |-> [k \in 1..Len(made[g]) |-> g]])
  /\ pc' = "split"
  /\ UNCHANGED <<claim_text, claim_data>>
  /\ UNCHANGED returned
  /\ UNCHANGED outside_parser

\* line 52: _split_and_clean_claims raises ValueError (line 74 or 75)
SplitRaises ==
  /\ pc = "call" /\ claim_text # <<>>
  /\ LET grouped == Grouped(claim_text)
     IN  \E g \in 1..Len(grouped) : GroupRaises(grouped[g][1], grouped[g][2])
  /\ pc' = "raised"
  /\ UNCHANGED <<claim_text, claim_strings, origin, claim_data>>
  /\ UNCHANGED returned
  /\ UNCHANGED outside_parser

\* line 53: the list comprehension over the claim strings
ParseClaimStrings ==
  /\ pc = "split"
  /\ claim_data' = [i \in 1..Len(claim_strings) |-> parse_claim_string(claim_strings[i])]
  /\ pc' = "parsed"
  /\ UNCHANGED <<claim_text, claim_strings, origin>>
  /\ UNCHANGED returned
  /\ UNCHANGED outside_parser

\* lines 54-60: the dictionary, the dependent_claims loop, the return
BuildDependents ==
  /\ pc = "parsed"
  /\ claim_data' = LinkFrom(claim_data, 1)
  /\ pc' = "done"
  /\ UNCHANGED <<claim_text, claim_strings, origin>>
  /\ UNCHANGED returned
  /\ UNCHANGED outside_parser

\* The caller calls parse again with the same text, on the same ClaimsParser or on
\* a new one: the class has no attributes, and the locals of line 52-54 are new.
ParseAgain ==
  /\ pc \in {"done", "raised"} /\ Len(returned) < MaxCalls - 1
  /\ returned' = Append(returned, [pc |-> pc, claim_data |-> claim_data])
  /\ pc' = "call"
  /\ claim_strings' = <<>>
  /\ origin' = <<>>
  /\ claim_data' = <<>>
  /\ UNCHANGED claim_text
  /\ UNCHANGED outside_parser

Next ==
  \/ ParseEmpty
  \/ SplitAndCleanClaims
  \/ SplitRaises
  \/ ParseClaimStrings
  \/ BuildDependents
  \/ ParseAgain

Spec == Init /\ [][Next]_vars

---------------------------------------------------------------------------
(***************************************************************************)
(* Part II - google_patents/parsers/claims.py: the lxml-based extractor.   *)
(*                                                                         *)
(* An element is a record: its tag, its class attribute (the set of its    *)
(* class names), its num and idref attributes (None when absent), the text *)
(* before its first child, its children in document order, and its tail    *)
(* (the text between its end tag and the next sibling, which lxml keeps on *)
(* the element itself).                                                    *)
(***************************************************************************)

Elem(tag, class, text, children, tail) ==
  [tag |-> tag, class |-> class, num |-> None, idref |-> None, text |-> text,
   children |-> children, tail |-> tail]

\* span[@class='google-src-text']: the attribute equals the name
IsSrcSpan(n) == n.tag = "span" /\ n.class = {"google-src-text"}

\* span[@class='notranslate']
IsNoTranslate(n) == n.tag = "span" /\ n.class = {"notranslate"}

\* _has_class(element, class_name)
has_class(n, class_name) == class_name \in n.class

\* div[contains(concat(' ', normalize-space(@class), ' '), ' claim-text ')]
IsClaimTextDiv(n) == n.tag = "div" /\ has_class(n, "claim-text")

\* the element <claim-text>
IsClaimTextElement(n) == n.tag = "claim-text"

\* _normalize_spaces(value)
normalize_spaces(value) == strip(WHITESPACE_RE_sub(value))

\* lxml's text_content(): the text of the element and of its descendants, with
\* the tails of the descendants, in document order
RECURSIVE text_content(_)
text_content(n) ==
  n.text \o Flatten([k \in 1..Len(n.children) |->
                       text_content(n.children[k]) \o n.children[k].tail])

\* xpath(".//*"): the descendants in document order
RECURSIVE Descendants(_)
Descendants(n) ==
  Flatten([k \in 1..Len(n.children) |->
             <<n.children[k]>> \o Descendants(n.children[k])])

\* _extract_original_text(element)
extract_original_text(element) ==
  LET src_spans == SelectSeq(Descendants(element), IsSrcSpan)
      texts     == [k \in 1..Len(src_spans) |-> text_content(src_spans[k])]
      filled    == SelectSeq(texts, LAMBDA t : t # <<>>)
      parts     == [k \in 1..Len(filled) |-> normalize_spaces(filled[k])]
  IN  IF parts = <<>> THEN None ELSE Join(parts, <<" ">>)

\* lines 56-57: span.getparent().remove(span) for every google-src-text span;
\* lxml's remove() takes the element out together with its tail
RECURSIVE RemoveSrcSpans(_)
RemoveSrcSpans(n) ==
  LET kept == SelectSeq(n.children, LAMBDA c : ~IsSrcSpan(c))
  IN  [n EXCEPT !.children = [k \in 1..Len(kept) |-> RemoveSrcSpans(kept[k])]]

\* prev.tail = (prev.tail or "") + span.tail, for the last element of a list
AddTail(elems, tail) ==
  [elems EXCEPT ![Len(elems)].tail = @ \o tail]

\* lines 60-73 for the children of one parent: `done` are the children already
\* passed, `left` those still to come.  A notranslate span hands its children
\* to the parent in its place and its tail to the element before it (or to the
\* parent's text), and is removed: its own text goes with it.
RECURSIVE UnwrapChildren(_, _, _)
RECURSIVE UnwrapNoTranslate(_)
UnwrapChildren(text, done, left) ==
  IF left = <<>> THEN [text |-> text, children |-> done]
  ELSE LET span == Head(left)
           rest == Tail(left)
       IN  IF ~IsNoTranslate(span)
           THEN UnwrapChildren(text, Append(done, UnwrapNoTranslate(span)), rest)
           ELSE IF span.tail = <<>>
           THEN UnwrapChildren(text, done, span.children \o rest)
           ELSE IF span.children # <<>>
           THEN UnwrapChildren(text, done, AddTail(span.children, span.tail) \o rest)
           ELSE IF done # <<>>
           THEN UnwrapChildren(text, AddTail(done, span.tail), rest)
           ELSE UnwrapChildren(text \o span.tail, done, rest)

UnwrapNoTranslate(n) ==
  LET r == UnwrapChildren(n.text, <<>>, n.children)
  IN  [n EXCEPT !.text = r.text, !.children = r.children]

\* The element passed to _extract_translated_text once the function has
\* returned, were the removals of lines 56-73 made on it.
AfterTranslatedTextInPlace(element) == UnwrapNoTranslate(RemoveSrcSpans(element))

\* The element passed to _extract_translated_text once the function has
\* returned: line 53 makes a deepcopy, and the removals are made on the copy.
AfterTranslatedText(element) == element

\* _extract_translated_text(element)
extract_translated_text(element) ==
  normalize_spaces(text_content(UnwrapNoTranslate(RemoveSrcSpans(element))))

\* .replace(" ,", ",") and .replace(" ;", ";"): a space before c is dropped
ReplaceSpaceBefore(s, c) ==
  LET kept == SelectSeq([i \in 1..Len(s) |-> i],
                        LAMBDA i : ~(s[i] = " " /\ i < Len(s) /\ s[i + 1] = c))
  IN  [k \in 1..Len(kept) |-> s[kept[k]]]

\* _strip_leading_number(value)
strip_leading_number(value) ==
  LET e       == RunEnd(value, 1, Digits)
      cleaned == IF e > 1 /\ e <= Len(value) /\ value[e] = "."
                 THEN SubSeq(value, RunEnd(value, e + 1, WS), Len(value))
                 ELSE value
  IN  strip(ReplaceSpaceBefore(ReplaceSpaceBefore(cleaned, ","), ";"))

---------------------------------------------------------------------------
(* _split_long_limitations                                                 *)

LongLimitationWords == 50

\* The symbols that are not word characters: \b stands between "wherein" and them.
NonWord == WS \cup {",", ";", ":", ".", ")", "-", "["}

\* len(cleaned.split()): the number of maximal runs without white space
WordCount(s) ==
  Cardinality({ i \in 1..Len(s) : s[i] \notin WS /\ (i = 1 \/ s[i - 1] \in WS) })

\* ,\s*wherein\b  matches at i
WHEREIN_match(s, i) ==
  /\ i <= Len(s) /\ s[i] = ","
  /\ LET w == RunEnd(s, i + 1, WS)
     IN  /\ w <= Len(s) /\ s[w] = "wherein"
         /\ (w = Len(s) \/ s[w + 1] \in NonWord)

\* the first place from i on where it matches, or 0
WHEREIN_search(s, i) ==
  LET places == { j \in i..Len(s) : WHEREIN_match(s, j) }
  IN  IF places = {} THEN 0 ELSE CHOOSE j \in places : \A k \in places : j <= k

\* re.split(r",\s*wherein\b", cleaned)
RECURSIVE WHEREIN_split_from(_, _)
WHEREIN_split_from(s, from) ==
  LET i == WHEREIN_search(s, from)
  IN  IF i = 0 THEN <<SubSeq(s, from, Len(s))>>
      ELSE <<SubSeq(s, from, i - 1)>>
           \o WHEREIN_split_from(s, RunEnd(s, i + 1, WS) + 1)

split_long_limitations(text) ==
  LET cleaned == strip(text)
      parts   == WHEREIN_split_from(cleaned, 1)
      segment(k) ==
        LET seg == strip(parts[k])
        IN  IF seg = <<>> THEN <<>>
            ELSE IF k > 1 /\ seg[1] # "wherein" THEN << <<"wherein", " ">> \o seg >>
            ELSE <<seg>>
      results == Flatten([k \in 1..Len(parts) |-> segment(k)])
  IN  IF cleaned = <<>> THEN <<>>
      ELSE IF WordCount(cleaned) <= LongLimitationWords THEN <<cleaned>>
      ELSE IF Len(parts) = 1 THEN <<cleaned>>
      ELSE IF results = <<>> THEN <<cleaned>> ELSE results

---------------------------------------------------------------------------
(* _direct_text_before_nested, _extract_limitations(_recursive)            *)

\* The children up to (not including) the first div of class claim-text:
\* the loop of lines 118-126 breaks there.
RECURSIVE BeforeNestedDiv(_)
BeforeNestedDiv(children) ==
  IF children = <<>> \/ IsClaimTextDiv(Head(children)) THEN <<>>
  ELSE <<Head(children)>> \o BeforeNestedDiv(Tail(children))

\* parts.append(x.strip()) when x.strip() is not empty
Part(x) == IF strip(x) = <<>> THEN <<>> ELSE <<strip(x)>>

direct_text_before_nested(text_div) ==
  LET seen  == BeforeNestedDiv(text_div.children)
      parts == Part(text_div.text)
               \o Flatten([k \in 1..Len(seen) |->
                             Part(text_content(seen[k])) \o Part(seen[k].tail)])
  IN  normalize_spaces(Join(parts, <<" ">>))

\* xpath("./div[... claim-text ...]"), and xpath("./claim-text") when that is empty
NestedContainers(n) ==
  LET divs == SelectSeq(n.children, IsClaimTextDiv)
  IN  IF divs # <<>> THEN divs ELSE SelectSeq(n.children, IsClaimTextElement)

RECURSIVE extract_limitations_recursive(_)
extract_limitations_recursive(text_div) ==
  LET direct_text == direct_text_before_nested(text_div)
      nested      == NestedContainers(text_div)
  IN  (IF direct_text # <<>> THEN <<direct_text>> ELSE <<>>)
      \o Flatten([k \in 1..Len(nested) |-> extract_limitations_recursive(nested[k])])

\* lines 162-185 of _extract_limitations: the list before it is cleaned
RawLimitations(claim_div) ==
  LET text_divs == NestedContainers(claim_div)
  IN  Flatten([k \in 1..Len(text_divs) |-> extract_limitations_recursive(text_divs[k])])

extract_limitations(claim_div) ==
  IF NestedContainers(claim_div) = <<>>
  THEN split_long_limitations(normalize_spaces(text_content(claim_div)))
  ELSE LET limitations == RawLimitations(claim_div)
       IN  Flatten([k \in 1..Len(limitations) |->
                      split_long_limitations(strip_leading_number(limitations[k]))])

\* _extract_original_limitations(claim_element)
extract_original_limitations(claim_element) ==
  LET divs      == SelectSeq(Descendants(claim_element), IsClaimTextDiv)
      text_divs == IF divs # <<>> THEN divs
                   ELSE SelectSeq(Descendants(claim_element), IsClaimTextElement)
      one(k)    == LET original == extract_original_text(text_divs[k])
                   IN  IF original = None \/ original = <<>> THEN <<>>
                       ELSE IF strip_leading_number(original) = <<>> THEN <<>>
                       ELSE <<strip_leading_number(original)>>
  IN  Flatten([k \in 1..Len(text_divs) |-> one(k)])

---------------------------------------------------------------------------
(* extract_claims: one iteration of the loop over the claim elements       *)

\* str.lstrip("0")
RECURSIVE lstrip0(_)
lstrip0(s) == IF s # <<>> /\ s[1] = "0" THEN lstrip0(Tail(s)) ELSE s

\* lines 253-258: div elements of class claim with a num attribute, and <claim>
\* elements with a num attribute when there is no such div
SelectClaimElements(elements) ==
  LET divs == SelectSeq(elements,
                LAMBDA e : e.tag = "div" /\ has_class(e, "claim") /\ e.num # None)
  IN  IF divs # <<>> THEN divs
      ELSE SelectSeq(elements, LAMBDA e : e.tag = "claim" /\ e.num # None)

\* the places of those elements in the container
SelectedPositions(elements) ==
  LET all  == [k \in 1..Len(elements) |-> k]
      divs == SelectSeq(all, LAMBDA k : /\ elements[k].tag = "div"
                                        /\ has_class(elements[k], "claim")
                                        /\ elements[k].num # None)
  IN  IF divs # <<>> THEN divs
      ELSE SelectSeq(all, LAMBDA k : elements[k].tag = "claim" /\ elements[k].num # None)

\* lines 265-268
ClaimNumber(claim_element) == strip(lstrip0(claim_element.num))

\* lines 273-275
OriginalText(claim_element) ==
  LET original_text == extract_original_text(claim_element)
  IN  IF original_text \in {None, <<>>} THEN original_text
      ELSE strip_leading_number(original_text)

\* lines 279-282
FullText(claim_element) ==
  IF OriginalText(claim_element) \notin {None, <<>>}
  THEN strip_leading_number(extract_translated_text(claim_element))
  ELSE strip_leading_number(normalize_spaces(text_content(claim_element)))

\* lines 285-290: first_ref.replace("CLM-", "").lstrip("0") of the first idref
DependsOn(claim_element) ==
  LET refs == SelectSeq(Descendants(claim_element),
                LAMBDA d : d.tag = "claim-ref" /\ d.idref # None)
  IN  IF refs # <<>> /\ refs[1].idref # <<>> /\ refs[1].idref[1] = "CLM-"
      THEN lstrip0(SelectSeq(refs[1].idref, LAMBDA c : c # "CLM-"))
      ELSE None

\* lines 293-297
ClaimType(claim_element) ==
  IF has_class(claim_element, "child") \/ DependsOn(claim_element) \notin {None, <<>>}
  THEN "dependent" ELSE "independent"

\* lines 299-307
ClaimDict(claim_element) ==
  [number        |-> ClaimNumber(claim_element),
   text          |-> FullText(claim_element),
   original_text |-> OriginalText(claim_element),
   type          |-> ClaimType(claim_element),
   depends_on    |-> DependsOn(claim_element)]

---------------------------------------------------------------------------
(* Input documents                                                         *)

MaxClaims == 2

Markups == {"div", "element"}

Other(m) == IF m = "div" THEN "element" ELSE "div"

\* a claim-text container in markup m
ClaimText(m, text, children, tail) ==
  IF m = "div" THEN Elem("div", {"claim-text"}, text, children, tail)
  ELSE Elem("claim-text", {}, text, children, tail)

\* a claim element in markup m
Claim(m, num, class, children) ==
  [Elem(IF m = "div" THEN "div" ELSE "claim",
        IF m = "div" THEN class \cup {"claim"} ELSE class, <<>>, children, <<"\n">>)
     EXCEPT !.num = num]

SrcSpan(text, tail) == Elem("span", {"google-src-text"}, text, <<>>, tail)

NoTranslate(text, children, tail) == Elem("span", {"notranslate"}, text, children, tail)

ClaimRef(text, idref, tail) ==
  [Elem("claim-ref", {}, text, <<>>, tail) EXCEPT !.idref = idref]

Opt(flag, elems) == IF flag THEN elems ELSE <<>>

Flags ==
  [numbered : BOOLEAN, inline : BOOLEAN, bilingual : BOOLEAN, wrapper_text : BOOLEAN,
   nested : BOOLEAN, deep : BOOLEAN, nested_bilingual : BOOLEAN, after : BOOLEAN,
   second : BOOLEAN]

\* Claim 1 of a document: one claim-text container with, as the flags say, an
\* inline element, an original-language span in its notranslate wrapper, a
\* nested container (itself with a nested container, or bilingual), an inline
\* element after the nested container, and a second top-level container.
TemplateClaim(m, f) ==
  LET wrapper == NoTranslate(Opt(f.wrapper_text, <<"N", " ">>),
                             <<SrcSpan(<<"O">>, <<"T">>)>>, <<" ", "U">>)
      inner   == ClaimText(m, <<"E">>, <<>>, <<"F">>)
      nested  == ClaimText(m, <<"\n", "D", " ">>,
                   Opt(f.nested_bilingual,
                       <<NoTranslate(<<>>, <<SrcSpan(<<"P">>, <<"Q">>)>>, <<>>)>>)
                   \o Opt(f.deep, <<inner>>),
                   <<"G">>)
      kids    == Opt(f.inline, <<Elem("b", {}, <<"B">>, <<>>, <<" ", "C", " ">>)>>)
                 \o Opt(f.bilingual, <<wrapper>>)
                 \o Opt(f.nested, <<nested>>)
                 \o Opt(f.after, <<Elem("b", {}, <<"H">>, <<>>, <<"I">>)>>)
      first   == ClaimText(m, Opt(f.numbered, <<"1", ".", " ">>) \o <<"A", ":", " ">>,
                           kids, <<"\n">>)
  IN  Claim(m, <<"0", "0", "1">>, {},
            <<first>> \o Opt(f.second, <<ClaimText(m, <<"J">>, <<>>, <<>>)>>))

TemplateClaims ==
  { TemplateClaim(m, f) : m \in Markups,
      f \in { g \in Flags : /\ g.wrapper_text => g.bilingual
                            /\ g.deep => g.nested
                            /\ g.nested_bilingual => g.nested } }

\* a dependent claim: "2. The widget of <claim-ref>claim 1</claim-ref>, wherein K"
DependentClaim(m) ==
  Claim(m, <<"0", "0", "2">>, {"child"},
        <<ClaimText(m, <<"2", ".", " ", "The", " ", "widget", " ", "of", " ">>,
            <<ClaimRef(<<"claim", " ", "1">>, <<"CLM-", "0", "0", "0", "0", "1">>,
                       <<" ", ",", " ", "wherein", " ", "K">>)>>, <<>>)>>)

\* a claim element whose number is empty once its zeros are stripped
UnnumberedClaim(m) == Claim(m, <<"0">>, {}, <<ClaimText(m, <<"L">>, <<>>, <<>>)>>)

\* a claim element without a num attribute
NoNumClaim(m) == Claim(m, None, {}, <<ClaimText(m, <<"M">>, <<>>, <<>>)>>)

\* a claim without claim-text containers, of more than fifty words:
\* "3. w w ... w, wherein w w ... w"
LongClaim(m) ==
  LET run(n) == Flatten([k \in 1..n |-> <<"w", " ">>])
  IN  [Claim(m, <<"3">>, {}, <<>>)
         EXCEPT !.text = <<"3", ".", " ">> \o run(LongLimitationWords \div 2) \o <<"w", ",">>
                         \o <<" ", "wherein", " ">> \o run(LongLimitationWords \div 2)]

\* a claim of class child whose reference to its parent is plain text
ChildClaim(m) ==
  Claim(m, <<"4">>, {"child"},
        <<ClaimText(m, <<"The", " ", "widget", " ", "of", " ", "claim", " ", "1">>,
                    <<>>, <<>>)>>)

MoreClaims(m) ==
  { DependentClaim(m), UnnumberedClaim(m), NoNumClaim(m), LongClaim(m),
    DependentClaim(Other(m)), ChildClaim(m) }

\* The claim elements of the claims container, in document order.
ElementLists ==
  UNION { { <<t>> \o more : more \in [1..n -> MoreClaims(IF t.tag = "div" THEN "div" ELSE "element")] }
          : t \in TemplateClaims, n \in 0..(MaxClaims - 1) }

Documents ==
  { [has_container |-> TRUE, elements |-> es] : es \in ElementLists }
  \cup { [has_container |-> FALSE, elements |-> <<>>] }

---------------------------------------------------------------------------
(* extract_claims as a state machine                                       *)

InitGoogle ==
  /\ FamilyIdle
  /\ PollIdle
  /\ OwnerIdle
  /\ CacheIdle
  /\ JpoIdle
  /\ RequestIdle
  /\ TokenIdle
  /\ SessionIdle
  /\ ParserIdle
  /\ CallIdle
  /\ document \in Documents
  /\ step = "call"
  /\ claim_elements = <<>>
  /\ visited = <<>>
  /\ found = <<>>
  /\ claims = <<>>
  /\ structured_limitations = <<>>
  /\ original_limitations = <<>>
  /\ earlier = <<>>

\* dictionary[key] = value
DictSet(dictionary, key, value) ==
  [k \in DOMAIN dictionary \cup {key} |-> IF k = key THEN value ELSE dictionary[k]]

\* lines 246-248: no claims section, return [], {}, {}
NoClaimsSection ==
  /\ step = "call" /\ ~document.has_container
  /\ step' = "done"
  /\ UNCHANGED <<document, claim_elements, visited, found, claims,
                 structured_limitations, original_limitations>>
  /\ UNCHANGED earlier
  /\ UNCHANGED outside_extractor

\* lines 250-262: the claim elements of the container
FindClaimElements ==
  /\ step = "call" /\ document.has_container
  /\ claim_elements' = SelectClaimElements(document.elements)
  /\ step' = "loop"
  /\ UNCHANGED <<document, visited, found, claims,
                 structured_limitations, original_limitations>>
  /\ UNCHANGED earlier
  /\ UNCHANGED outside_extractor

\* lines 265-270: an element whose number is empty is passed over
SkipClaim ==
  /\ step = "loop" /\ claim_elements # <<>>
  /\ ClaimNumber(Head(claim_elements)) = <<>>
  /\ claim_elements' = Tail(claim_elements)
  /\ UNCHANGED <<document, step, visited, found, claims,
                 structured_limitations, original_limitations>>
  /\ UNCHANGED earlier
  /\ UNCHANGED outside_extractor

\* lines 264-316: one claim element becomes a claim.  `after` is the element as
\* line 280 leaves it in the tree; the limitations are read from it afterwards.
ExtractClaim ==
  /\ step = "loop" /\ claim_elements # <<>>
  /\ LET claim_element == Head(claim_elements)
         claim_number  == ClaimNumber(claim_element)
         nonempty(l)   == SelectSeq(l, LAMBDA item : item # <<>>)
         after         == IF OriginalText(claim_element) \notin {None, <<>>}
                          THEN AfterTranslatedText(claim_element)
                          ELSE claim_element
         positions     == SelectedPositions(document.elements)
         position      == positions[Len(positions) - Len(claim_elements) + 1]
     IN  /\ claim_number # <<>>
         /\ claims' = Append(claims, ClaimDict(claim_element))
         /\ visited' = Append(visited, claim_element)
         /\ found' = Append(found, RawLimitations(after))
         /\ structured_limitations' =
              DictSet(structured_limitations, claim_number,
                      nonempty(extract_limitations(after)))
         /\ original_limitations' =
              IF OriginalText(claim_element) \notin {None, <<>>}
              THEN DictSet(original_limitations, claim_number,
                           nonempty(extract_original_limitations(after)))
              ELSE original_limitations
         /\ document' = [document EXCEPT !.elements[position] = after]
  /\ claim_elements' = Tail(claim_elements)
  /\ UNCHANGED step
  /\ UNCHANGED earlier
  /\ UNCHANGED outside_extractor

\* line 318: return claims, structured_limitations, original_limitations
ReturnClaims ==
  /\ step = "loop" /\ claim_elements = <<>>
  /\ step' = "done"
  /\ UNCHANGED <<document, claim_elements, visited, found, claims,
                 structured_limitations, original_limitations>>
  /\ UNCHANGED earlier
  /\ UNCHANGED outside_extractor

\* The caller calls extract_claims again with the tree it passed before.
ExtractAgain ==
  /\ step = "done" /\ Len(earlier) < MaxCalls - 1
  /\ earlier' = Append(earlier, <<claims, structured_limitations, original_limitations>>)
  /\ step' = "call"
  /\ claim_elements' = <<>>
  /\ visited' = <<>>
  /\ found' = <<>>
  /\ claims' = <<>>
  /\ structured_limitations' = <<>>
  /\ original_limitations' = <<>>
  /\ UNCHANGED document
  /\ UNCHANGED outside_extractor

NextGoogle ==
  \/ NoClaimsSection
  \/ FindClaimElements
  \/ SkipClaim
  \/ ExtractClaim
  \/ ReturnClaims
  \/ ExtractAgain

SpecGoogle == InitGoogle /\ [][NextGoogle]_vars

\* Either parser, called with one input MaxCalls times.
InitParsers == Init \/ InitGoogle

NextParsers == Next \/ NextGoogle

SpecParsers == InitParsers /\ [][NextParsers]_vars

---------------------------------------------------------------------------
(* Part III - functions without state, one call each                       *)
(* epo_ops/parsing.py: parse_cpc_retrieval                                 *)

\* an element of an XML document: its qualified name, text and child elements
Xml(tag, text, children) == [tag |-> tag, text |-> text, children |-> children]

\* xpath(".//*"): the elements below n in document order; n itself is not one
RECURSIVE XmlDescendants(_)
XmlDescendants(n) ==
  Flatten([k \in 1..Len(n.children) |->
             <<n.children[k]>> \o XmlDescendants(n.children[k])])

\* xpath("./<tag>")
XmlChildren(n, tag) == SelectSeq(n.children, LAMBDA c : c.tag = tag)

\* "".join(value.itertext()) of an element
RECURSIVE itertext(_)
itertext(n) ==
  n.text \o Flatten([k \in 1..Len(n.children) |-> itertext(n.children[k])])

\* _text(node, "./<tag>"): the first non-empty stripped text, or None
text_of(node, tag) ==
  LET cleaned == [k \in 1..Len(XmlChildren(node, tag)) |->
                    strip(itertext(XmlChildren(node, tag)[k]))]
      filled  == SelectSeq(cleaned, LAMBDA t : t # <<>>)
  IN  IF filled = <<>> THEN None ELSE filled[1]

\* _parse_cpc_item(node)
RECURSIVE parse_cpc_item(_)
parse_cpc_item(node) ==
  LET nodes == XmlChildren(node, "cpc:classification-item")
  IN  [symbol   |-> text_of(node, "cpc:classification-symbol"),
       children |-> [k \in 1..Len(nodes) |-> parse_cpc_item(nodes[k])]]

\* root.xpath(".//cpc:class-scheme")
SchemeNodes(root) ==
  SelectSeq(XmlDescendants(root), LAMBDA n : n.tag = "cpc:class-scheme")

\* parse_cpc_retrieval(xml_data), after _as_element
parse_cpc_retrieval(root) ==
  IF SchemeNodes(root) = <<>> THEN Raises("XmlParseError")
  ELSE LET scheme_node == SchemeNodes(root)[1]
           nodes       == XmlChildren(scheme_node, "cpc:classification-item")
       IN  Returns([scheme |->
                      [items |-> [k \in 1..Len(nodes) |-> parse_cpc_item(nodes[k])]]])

\* The classification items of the inputs: leaves, and items with items inside.
MaxItems == 2

CpcSymbol(symbol) == Xml("cpc:classification-symbol", symbol, <<>>)

CpcLeaves ==
  { Xml("cpc:classification-item", <<>>, <<CpcSymbol(symbol)>>)
      : symbol \in {<<"A">>, <<" ">>} }

CpcItems ==
  CpcLeaves
  \cup { Xml("cpc:classification-item", <<>>, <<CpcSymbol(<<"B">>)>> \o inner)
           : inner \in UNION { [1..n -> CpcLeaves] : n \in 1..MaxItems } }

\* The scheme node with up to MaxItems items, or another node in its place.
CpcSchemes ==
  { Xml(tag, <<>>, items)
      : tag \in {"cpc:class-scheme", "class-scheme", "ops:classification-statistics"},
        items \in UNION { [1..n -> CpcItems] : n \in 0..MaxItems } }

\* The scheme node is the root of the document, or the child of an OPS
\* envelope; an envelope may also be empty.
CpcDocuments ==
  CpcSchemes
  \cup { Xml("ops:world-patent-data", <<>>, <<Xml("ops:classification-scheme", <<>>, <<s>>)>>)
           : s \in CpcSchemes }
  \cup { Xml("ops:world-patent-data", <<>>, <<>>) }

---------------------------------------------------------------------------
(* epo_ops/parsing.py: the composite document numbers                      *)

\* _text(node, ".//<tag>"): as text_of, over the elements below node
text_below(node, tag) ==
  LET nodes   == SelectSeq(XmlDescendants(node), LAMBDA n : n.tag = tag)
      cleaned == [k \in 1..Len(nodes) |-> strip(itertext(nodes[k]))]
      filled  == SelectSeq(cleaned, LAMBDA t : t # <<>>)
  IN  IF filled = <<>> THEN None ELSE filled[1]

\* value or ""
OrEmpty(value) == IF value = None THEN <<>> ELSE value

\* lines 133-135 of parse_search_response, 293-303 of parse_family
NumberIfCountryAndNumber(country, doc_number, kind) ==
  IF country \notin {None, <<>>} /\ doc_number \notin {None, <<>>}
  THEN country \o doc_number \o OrEmpty(kind)
  ELSE None

\* lines 190-195 of parse_biblio_response, 221-226 of parse_claims
\* (nodes are the document-id elements found: _first(nodes) is None when there are none)
NumberIfDocument(nodes, ns) ==
  IF nodes = <<>> THEN None
  ELSE OrEmpty(text_of(nodes[1], ns \o "country"))
       \o OrEmpty(text_of(nodes[1], ns \o "doc-number"))
       \o OrEmpty(text_of(nodes[1], ns \o "kind"))

\* parse_search_response: the results, one for each publication-reference
parse_search_response(root) ==
  LET nodes == SelectSeq(XmlDescendants(root),
                         LAMBDA n : n.tag = "ops:publication-reference")
      result(pub) ==
        [docdb_number |-> NumberIfCountryAndNumber(text_below(pub, "epo:country"),
                                                   text_below(pub, "epo:doc-number"),
                                                   text_below(pub, "epo:kind")),
         country      |-> text_below(pub, "epo:country"),
         doc_number   |-> text_below(pub, "epo:doc-number"),
         kind         |-> text_below(pub, "epo:kind")]
  IN  Returns([k \in 1..Len(nodes) |-> result(nodes[k])])

\* the document-id elements below the <reference> elements below n
ReferenceIds(n, reference) ==
  Flatten([k \in 1..Len(XmlDescendants(n)) |->
     IF XmlDescendants(n)[k].tag = reference
     THEN XmlChildren(XmlDescendants(n)[k], "epo:document-id")
     ELSE <<>>])

\* parse_biblio_response: the documents, one for each exchange-document
parse_biblio_response(root) ==
  LET docs == SelectSeq(XmlDescendants(root), LAMBDA n : n.tag = "epo:exchange-document")
      record(exchange_doc) ==
        [docdb_number |->
           NumberIfDocument(ReferenceIds(exchange_doc, "epo:publication-reference"),
                            "epo:")]
  IN  Returns([k \in 1..Len(docs) |-> record(docs[k])])

\* parse_claims: the docdb_number of the full-text response
parse_claims(root) ==
  LET nodes == SelectSeq(XmlDescendants(root), LAMBDA n : n.tag = "ft:document-id")
  IN  Returns([docdb_number |-> NumberIfDocument(nodes, "ft:")])

\* _parse_document_id(node)
parse_document_id(node) ==
  [number  |-> text_of(node, "epo:doc-number"),
   country |-> text_of(node, "epo:country"),
   kind    |-> text_of(node, "epo:kind")]

\* parse_family: the members, one for each family-member
parse_family(root) ==
  LET nodes == SelectSeq(XmlDescendants(root), LAMBDA n : n.tag = "ops:family-member")
      number(refs) ==
        IF refs = <<>> THEN None
        ELSE NumberIfCountryAndNumber(parse_document_id(refs[1]).country,
                                      parse_document_id(refs[1]).number,
                                      parse_document_id(refs[1]).kind)
      member(m) ==
        [publication_number |-> number(ReferenceIds(m, "epo:publication-reference")),
         application_number |-> number(ReferenceIds(m, "epo:application-reference"))]
  IN  Returns([k \in 1..Len(nodes) |-> member(nodes[k])])

\* A part of a document-id is absent, blank, or has a value.
PartStates == {"absent", "blank", "value"}

DocumentPart(tag, state, value) ==
  IF state = "absent" THEN <<>>
  ELSE <<Xml(tag, IF state = "blank" THEN <<" ">> ELSE value, <<>>)>>

\* <document-id document-id-type="docdb"> in the namespace ns
DocumentIds(ns) ==
  { Xml(ns \o "document-id", <<>>,
        DocumentPart(ns \o "country", c, <<"E", "P">>)
        \o DocumentPart(ns \o "doc-number", n, <<"1", "0", "0">>)
        \o DocumentPart(ns \o "kind", k, <<"A", "1">>))
      : c \in PartStates, n \in PartStates, k \in PartStates }

\* zero or one document-id
OptionalIds(ns) == {<<>>} \cup { <<d>> : d \in DocumentIds(ns) }

SearchDocuments ==
  { Xml("ops:world-patent-data", <<>>,
        <<Xml("ops:search-result", <<>>, <<Xml("ops:publication-reference", <<>>, ids)>>)>>)
      : ids \in OptionalIds("epo:") }

BiblioDocuments ==
  { Xml("ops:world-patent-data", <<>>,
        <<Xml("epo:exchange-document", <<>>,
              <<Xml("epo:bibliographic-data", <<>>,
                    <<Xml("epo:publication-reference", <<>>, ids)>>)>>)>>)
      : ids \in OptionalIds("epo:") }

ClaimsDocuments ==
  { Xml("ops:world-patent-data", <<>>,
        <<Xml("ft:fulltext-document", <<>>, ids \o <<Xml("ft:claims", <<>>, <<>>)>>)>>)
      : ids \in OptionalIds("ft:") }

FamilyDocuments ==
  { Xml("ops:world-patent-data", <<>>,
        <<Xml("ops:patent-family", <<>>,
              <<Xml("ops:family-member", <<>>,
                    <<Xml("epo:publication-reference", <<>>, pubs),
                      Xml("epo:application-reference", <<>>, apps)>>)>>)>>)
      : pubs \in OptionalIds("epo:"), apps \in OptionalIds("epo:") }

ParseSearchResponse ==
  /\ call.function = "parse_search_response" /\ outcome = Pending
  /\ outcome' = parse_search_response(call.argument)
  /\ UNCHANGED call
  /\ UNCHANGED outside_call

ParseBiblioResponse ==
  /\ call.function = "parse_biblio_response" /\ outcome = Pending
  /\ outcome' = parse_biblio_response(call.argument)
  /\ UNCHANGED call
  /\ UNCHANGED outside_call

ParseClaims ==
  /\ call.function = "parse_claims" /\ outcome = Pending
  /\ outcome' = parse_claims(call.argument)
  /\ UNCHANGED call
  /\ UNCHANGED outside_call

ParseFamily ==
  /\ call.function = "parse_family" /\ outcome = Pending
  /\ outcome' = parse_family(call.argument)
  /\ UNCHANGED call
  /\ UNCHANGED outside_call

---------------------------------------------------------------------------
(* uspto_publications/transformers.py: _parse_month                        *)

\* int(string) of Python for a string of digits, spaces and signs: the value of
\* the stripped string with an optional sign before its digits, or ValueError
IntOf(string) ==
  LET t      == strip(string)
      signed == t # <<>> /\ t[1] \in {"-", "+"}
      digits == IF signed THEN Tail(t) ELSE t
  IN  IF digits = <<>> \/ \E k \in 1..Len(digits) : digits[k] \notin Digits
      THEN Raises("ValueError")
      ELSE Returns(IF signed /\ t[1] = "-" THEN 0 - int(digits) ELSE int(digits))

MinYear == 1

MaxYear == 9999

Months == 12

\* str(n) on at least `width` places: the format of date.isoformat()
Padded(n, width) ==
  [k \in 1..(width - Len(str(n))) |-> "0"] \o str(n)

\* dt.date(year, month, 1).isoformat(), or the ValueError of dt.date
FirstOfMonth(year, month) ==
  IF year < MinYear \/ year > MaxYear \/ month < 1 \/ month > Months
  THEN Raises("ValueError")
  ELSE Returns(Padded(year, 4) \o <<"-">> \o Padded(month, 2) \o <<"-", "0", "1">>)

\* _parse_month(value), value a string or None
parse_month(value) ==
  IF value = None \/ value = <<>> THEN Returns(None)
  ELSE IF Len(value) < 6 THEN Returns(None)
  ELSE LET year  == IntOf(SubSeq(value, 1, 4))
           month == IntOf(SubSeq(value, 5, 6))
       IN  IF IsRaise(year) \/ IsRaise(month) THEN Returns(None)
           ELSE FirstOfMonth(year.returned, month.returned)

\* The values: None, the empty string, a year alone, and year and month with
\* or without a day, the digits right or wrong.
MonthValues ==
  {None, <<>>, <<"2", "0", "2", "3">>}
  \cup { year \o month \o day
          : year  \in {<<"2", "0", "2", "3">>, <<"0", "0", "0", "0">>, <<"1", "9", "x", "9">>,
                        <<" ", "2", "0", "2">>, <<"-", "0", "2", "3">>},
            month \in {<<"0", "0">>, <<"0", "1">>, <<"1", "2">>, <<"1", "3">>,
                        <<"1", "x">>, <<" ", "1">>, <<"-", "1">>},
            day   \in {<<>>, <<"1", "5">>, <<"x">>} }

ParseMonth ==
  /\ call.function = "_parse_month" /\ outcome = Pending
  /\ outcome' = parse_month(call.argument)
  /\ UNCHANGED call
  /\ UNCHANGED outside_call

---------------------------------------------------------------------------
(* uspto_publications/transformers.py: _zip_records                        *)

\* str.lower(), for the words of the inputs
Lower(word) == IF word = "Examiner" THEN "examiner" ELSE word

\* Python's True and False among the values of a record
True == <<"<True>">>

False == <<"<False>">>

\* lambda value, *_: "examiner" in (value or "").lower()
CitedByExaminer(value) ==
  IF value # None /\ \E k \in 1..Len(value) : Lower(value[k]) = "examiner"
  THEN True ELSE False

\* transform(value, index, data) of a mapping entry; None is no transform, and
\* an exception of _parse_month goes through
Transformed(transform, value) ==
  IF transform = "_parse_month" THEN parse_month(value)
  ELSE IF transform = "cited_by_examiner" THEN Returns(CitedByExaminer(value))
  ELSE Returns(value)

\* value not in (None, "", [], {}): False is none of the four
CountsAsValue(value) == value \notin {None, <<>>}

\* values[index] if index < len(values) else None, counting from 1
ValueAt(values, index) == IF index <= Len(values) THEN values[index] ELSE None

\* max(lengths, default=0)
MaxLen(data, mapping) ==
  LET lengths == { Len(data[mapping[k].source]) : k \in 1..Len(mapping) }
  IN  IF lengths = {} THEN 0 ELSE CHOOSE n \in lengths : \A m \in lengths : m <= n

\* the record of one index: its fields in the order of the mapping
RecordAt(data, mapping, index) ==
  [k \in 1..Len(mapping) |->
     [field_name |-> mapping[k].field_name,
      value      |-> Transformed(mapping[k].transform,
                                 ValueAt(data[mapping[k].source], index)).returned]]

\* _zip_records(data, mapping)
zip_records(data, mapping) ==
  LET indexes   == [i \in 1..MaxLen(data, mapping) |-> i]
      raises(i) == \E k \in 1..Len(mapping) :
                     IsRaise(Transformed(mapping[k].transform,
                                         ValueAt(data[mapping[k].source], i)))
      has_value(i) == \E k \in 1..Len(mapping) :
                        CountsAsValue(RecordAt(data, mapping, i)[k].value)
      emitted   == SelectSeq(indexes, has_value)
  IN  IF \E i \in 1..Len(indexes) : raises(i) THEN Raises("ValueError")
      ELSE Returns([j \in 1..Len(emitted) |-> RecordAt(data, mapping, emitted[j])])

\* convert_document_payload: the mapping of us_references
UsReferences ==
  <<[field_name |-> "publication_number", source |-> "urpn", transform |-> "none"],
    [field_name |-> "pub_month", source |-> "usRefIssueDate", transform |-> "_parse_month"],
    [field_name |-> "patentee_name", source |-> "usRefPatenteeName", transform |-> "none"],
    [field_name |-> "cited_by_examiner", source |-> "usRefGroup",
     transform |-> "cited_by_examiner"]>>

\* the same mapping without its derived field
UsReferencesPlain == SubSeq(UsReferences, 1, 3)

\* the greatest number of values of one source field
MaxPositions == 2

ListsOf(values) == UNION { [1..n -> values] : n \in 0..MaxPositions }

\* The payloads: each source field with up to MaxPositions values, empty or not.
Payloads ==
  [urpn              : ListsOf({None, <<"US1">>}),
   usRefIssueDate    : ListsOf({None, <<"2", "0", "2", "3", "0", "1">>}),
   usRefPatenteeName : ListsOf({<<>>, <<"Smith">>}),
   usRefGroup        : ListsOf({None, <<"cited by ", "Examiner">>})]

ZipRecords ==
  /\ call.function = "_zip_records" /\ outcome = Pending
  /\ outcome' = zip_records(call.argument.data, call.argument.mapping)
  /\ UNCHANGED call
  /\ UNCHANGED outside_call

---------------------------------------------------------------------------
(* core/base_client.py: _raise_for_status                                  *)

\* an error of the hierarchy of core/exceptions.py with its status_code
ApiError(type, status) == [type |-> type, status_code |-> status]

\* httpx.Response.is_success
is_success(status) == 200 <= status /\ status <= 299

raise_for_status_403_untyped(status) ==
  IF is_success(status) THEN Returns(None)
  ELSE IF status = 404 THEN Raises(ApiError("NotFoundError", status))
  ELSE IF status = 429 THEN Raises(ApiError("RateLimitError", status))
  ELSE IF status = 401 THEN Raises(ApiError("AuthenticationError", status))
  ELSE IF 500 <= status /\ status < 600 THEN Raises(ApiError("ServerError", status))
  ELSE Raises(ApiError("ApiError", status))

\* lines 108-123
raise_for_status(status) ==
  IF is_success(status) THEN Returns(None)
  ELSE IF status = 404 THEN Raises(ApiError("NotFoundError", status))
  ELSE IF status = 429 THEN Raises(ApiError("RateLimitError", status))
  ELSE IF status \in {401, 403} THEN Raises(ApiError("AuthenticationError", status))
  ELSE IF 500 <= status /\ status < 600 THEN Raises(ApiError("ServerError", status))
  ELSE Raises(ApiError("ApiError", status))

\* the statuses of the responses passed to _raise_for_status
StatusCodes ==
  {100, 199, 200, 201, 204, 299, 300, 304, 400, 401, 402, 403, 404, 418, 429,
   499, 500, 502, 503, 504, 599, 600}

RaiseForStatus ==
  /\ call.function = "_raise_for_status" /\ outcome = Pending
  /\ outcome' = raise_for_status(call.argument)
  /\ UNCHANGED call
  /\ UNCHANGED outside_call

---------------------------------------------------------------------------
(* The calls                                                               *)

ParseCpcRetrieval ==
  /\ call.function = "parse_cpc_retrieval" /\ outcome = Pending
  /\ outcome' = parse_cpc_retrieval(call.argument)
  /\ UNCHANGED call
  /\ UNCHANGED outside_call

Calls ==
  { [function |-> "parse_cpc_retrieval", argument |-> d] : d \in CpcDocuments }
  \cup { [function |-> "parse_search_response", argument |-> d] : d \in SearchDocuments }
  \cup { [function |-> "parse_biblio_response", argument |-> d] : d \in BiblioDocuments }
  \cup { [function |-> "parse_claims", argument |-> d] : d \in ClaimsDocuments }
  \cup { [function |-> "parse_family", argument |-> d] : d \in FamilyDocuments }
  \cup { [function |-> "_parse_month", argument |-> v] : v \in MonthValues }
  \cup { [function |-> "_raise_for_status", argument |-> c] : c \in StatusCodes }
  \cup { [function |-> "_zip_records", argument |-> [data |-> d, mapping |-> m]]
          : d \in Payloads, m \in {UsReferences, UsReferencesPlain} }

InitCalls ==
  /\ FamilyIdle
  /\ PollIdle
  /\ OwnerIdle
  /\ CacheIdle
  /\ JpoIdle
  /\ RequestIdle
  /\ TokenIdle
  /\ SessionIdle
  /\ ParserIdle
  /\ ExtractorIdle
  /\ call \in Calls
  /\ outcome = Pending

NextCalls ==
  \/ ParseCpcRetrieval
  \/ ParseSearchResponse
  \/ ParseBiblioResponse
  \/ ParseClaims
  \/ ParseFamily
  \/ ParseMonth
  \/ ZipRecords
  \/ RaiseForStatus

SpecCalls == InitCalls /\ [][NextCalls]_vars

---------------------------------------------------------------------------
(* Part IV - uspto_publications/client.py: the session of PublicSearchClient *)
(* Tasks of one event loop call get_document; a step runs from one await to *)
(* the next.                                                               *)

MaxTasks == 2

Tasks == 1..MaxTasks

\* stop_after_attempt(3) of the retry around _request
RequestAttempts == 3

\* the statuses the server answers a request with
Statuses == {200, 403, 429}

InitSession ==
  /\ FamilyIdle
  /\ PollIdle
  /\ OwnerIdle
  /\ CacheIdle
  /\ JpoIdle
  /\ RequestIdle
  /\ TokenIdle
  /\ ParserIdle
  /\ ExtractorIdle
  /\ CallIdle
  /\ session_lock = 0
  /\ case_id = None
  /\ access_token = None
  /\ where = [t \in Tasks |-> "call"]
  /\ attempt = [t \in Tasks |-> 0]

\* a task is inside _refresh_session: between the cookie reset and the update
\* of _case_id and the access token
Refreshing(t) == where[t] \in {"refresh_get", "refresh_post"}

\* lines 82-87: _ensure_session up to its first await.  With a session the task
\* goes on to _request; with the lock free it takes it, sees no session and
\* starts _refresh_session (cookie reset, GET sent); else it waits for the lock.
EnsureSession(t) ==
  /\ where[t] = "call"
  /\ IF case_id # None
     THEN where' = [where EXCEPT ![t] = "request"] /\ UNCHANGED session_lock
     ELSE IF session_lock = 0
          THEN where' = [where EXCEPT ![t] = "refresh_get"] /\ session_lock' = t
          ELSE where' = [where EXCEPT ![t] = "wait_lock"] /\ UNCHANGED session_lock
  /\ UNCHANGED <<case_id, access_token, attempt>>
  /\ UNCHANGED outside_session

\* lines 84-87: the lock is granted to a waiting task, which checks _case_id
\* again: it leaves the lock at once, or starts _refresh_session.
LockGranted(t) ==
  /\ where[t] = "wait_lock" /\ session_lock = 0
  /\ IF case_id # None
     THEN where' = [where EXCEPT ![t] = "request"] /\ UNCHANGED session_lock
     ELSE where' = [where EXCEPT ![t] = "refresh_get"] /\ session_lock' = t
  /\ UNCHANGED <<case_id, access_token, attempt>>
  /\ UNCHANGED outside_session

\* line 91: the GET of _refresh_session is answered, the session POST is sent
RefreshGet(t) ==
  /\ where[t] = "refresh_get"
  /\ where' = [where EXCEPT ![t] = "refresh_post"]
  /\ UNCHANGED <<session_lock, case_id, access_token, attempt>>
  /\ UNCHANGED outside_session

\* lines 92-102: the session POST is answered well; _case_id and the token are
\* updated.  Under _ensure_session the lock is left and _request follows; in
\* _request (line 109) the request is sent again.
RefreshPost(t) ==
  /\ where[t] = "refresh_post"
  /\ case_id' = IF case_id = None THEN str(1) ELSE str(int(case_id) + 1)
  /\ access_token' = case_id'
  /\ IF session_lock = t
     THEN session_lock' = 0 /\ where' = [where EXCEPT ![t] = "request"]
     ELSE UNCHANGED session_lock /\ where' = [where EXCEPT ![t] = "second_request"]
  /\ UNCHANGED attempt
  /\ UNCHANGED outside_session

\* line 97: raise_for_status raises on the answer to the session POST.  Under
\* _ensure_session the lock is left and get_document fails; in _request the
\* retry of line 104 calls _request again until its attempts are used up.
RefreshFails(t) ==
  /\ where[t] = "refresh_post"
  /\ IF session_lock = t
     THEN session_lock' = 0 /\ where' = [where EXCEPT ![t] = "failed"]
     ELSE /\ UNCHANGED session_lock
          /\ where' = [where EXCEPT ![t] = IF attempt[t] < RequestAttempts
                                     THEN "request" ELSE "failed"]
  /\ UNCHANGED <<case_id, access_token, attempt>>
  /\ UNCHANGED outside_session

\* lines 106-113: the request is answered.  403: _refresh_session is started,
\* with no lock; 429: the task sleeps; else the response is returned.
SendRequest(t) ==
  /\ where[t] = "request"
  /\ attempt' = [attempt EXCEPT ![t] = @ + 1]
  /\ \E status \in Statuses :
       where' = [where EXCEPT ![t] = CASE status = 403 -> "refresh_get"
                                 [] status = 429 -> "sleep"
                                 [] OTHER -> "done"]
  /\ UNCHANGED <<session_lock, case_id, access_token>>
  /\ UNCHANGED outside_session

\* lines 109-113: the answer to the request sent again after the refresh
SecondRequest(t) ==
  /\ where[t] = "second_request"
  /\ \E status \in Statuses :
       where' = [where EXCEPT ![t] = IF status = 429 THEN "sleep" ELSE "done"]
  /\ UNCHANGED <<session_lock, case_id, access_token, attempt>>
  /\ UNCHANGED outside_session

\* lines 111-114: after the sleep the request is sent once more and its
\* response returned
SleepOver(t) ==
  /\ where[t] = "sleep"
  /\ where' = [where EXCEPT ![t] = "done"]
  /\ UNCHANGED <<session_lock, case_id, access_token, attempt>>
  /\ UNCHANGED outside_session

NextSession ==
  \E t \in Tasks :
    \/ EnsureSession(t)
    \/ LockGranted(t)
    \/ RefreshGet(t)
    \/ RefreshPost(t)
    \/ RefreshFails(t)
    \/ SendRequest(t)
    \/ SecondRequest(t)
    \/ SleepOver(t)

SpecSession == InitSession /\ [][NextSession]_vars

---------------------------------------------------------------------------
(* Part V - jpo/client.py: TokenManager.get_token                          *)
(* Callers of one event loop call get_token; a step runs from one await to *)
(* the next.  Time is in seconds.                                          *)

\* the clock is followed up to this time
MaxTime == 150

\* the clock is read every ClockStep seconds
ClockStep == 30

\* the access tokens the token endpoint issues
AccessTokens == {<<"a">>, <<"b">>}

\* the bodies of the 200 answers of the token endpoint: expires_in is optional
TokenData ==
  [access_token : AccessTokens, expires_in : {90, 120}]
    \cup [access_token : AccessTokens]

\* the statuses of the answers of the token endpoint that are not 200
TokenErrors == {401, 403, 500}

\* dict.get(key, default)
get(data, key, default) == IF key \in DOMAIN data THEN data[key] ELSE default

\* the truth value of an optional string
Truthy(value) == value \notin {None, <<>>}

InitToken ==
  /\ FamilyIdle
  /\ PollIdle
  /\ OwnerIdle
  /\ CacheIdle
  /\ JpoIdle
  /\ RequestIdle
  /\ ParserIdle
  /\ ExtractorIdle
  /\ CallIdle
  /\ SessionIdle
  /\ token = None
  /\ token_expiry = 0
  /\ token_lock = 0
  /\ now = 0
  /\ caller = [t \in Tasks |-> "call"]
  /\ got = [t \in Tasks |-> Pending]
  /\ sent = [t \in Tasks |-> 0]

TokenValidWideBuffer == Truthy(token) /\ now < token_expiry - 90

\* line 99: the stored token is still valid, with the buffer of 60 seconds
TokenValid == Truthy(token) /\ now < token_expiry - 60

\* lines 97-112: a caller that has _lock returns the stored token and leaves
\* the lock in the same step, or sends the token request and keeps the lock
\* over the await.
WithLock(t) ==
  IF TokenValid
  THEN /\ caller' = [caller EXCEPT ![t] = "returned"]
       /\ got' = [got EXCEPT ![t] = Returns(token)]
       /\ UNCHANGED <<token_lock, sent>>
  ELSE /\ caller' = [caller EXCEPT ![t] = "post"]
       /\ token_lock' = t
       /\ sent' = [sent EXCEPT ![t] = @ + 1]
       /\ UNCHANGED got

\* line 97: get_token is called.  A free lock is taken without a yield; else
\* the caller waits for it.
GetToken(t) ==
  /\ caller[t] = "call"
  /\ IF token_lock = 0
     THEN WithLock(t)
     ELSE /\ caller' = [caller EXCEPT ![t] = "wait_lock"]
          /\ UNCHANGED <<token_lock, got, sent>>
  /\ UNCHANGED <<token, token_expiry, now>>
  /\ UNCHANGED outside_token

\* line 97: the lock is granted to a waiting caller
TokenLockGranted(t) ==
  /\ caller[t] = "wait_lock" /\ token_lock = 0
  /\ WithLock(t)
  /\ UNCHANGED <<token, token_expiry, now>>
  /\ UNCHANGED outside_token

\* lines 105-133: the token request is answered with 200; the token and its
\* expiry are stored, the token returned and the lock left.
TokenGranted(t) ==
  /\ caller[t] = "post"
  /\ \E data \in TokenData :
       /\ token' = data.access_token
       /\ token_expiry' = now + get(data, "expires_in", 3600)
       /\ got' = [got EXCEPT ![t] = Returns(data.access_token)]
  /\ caller' = [caller EXCEPT ![t] = "returned"]
  /\ token_lock' = 0
  /\ UNCHANGED <<now, sent>>
  /\ UNCHANGED outside_token

\* lines 115-123, 135-140: the token request is answered with another status;
\* AuthenticationError with that status is raised and the lock left.
TokenRefused(t) ==
  /\ caller[t] = "post"
  /\ \E code \in TokenErrors :
       got' = [got EXCEPT ![t] = Raises(<<"AuthenticationError", code>>)]
  /\ caller' = [caller EXCEPT ![t] = "raised"]
  /\ token_lock' = 0
  /\ UNCHANGED <<token, token_expiry, now, sent>>
  /\ UNCHANGED outside_token

\* lines 144-147: invalidate()
Invalidate ==
  /\ token # None
  /\ token' = None
  /\ token_expiry' = 0
  /\ UNCHANGED <<token_lock, now, caller, got, sent>>
  /\ UNCHANGED outside_token

\* time passes between two steps of the callers
Tick ==
  /\ now < MaxTime
  /\ now' = now + ClockStep
  /\ UNCHANGED <<token, token_expiry, token_lock, caller, got, sent>>
  /\ UNCHANGED outside_token

NextToken ==
  \/ \E t \in Tasks :
       \/ GetToken(t)
       \/ TokenLockGranted(t)
       \/ TokenGranted(t)
       \/ TokenRefused(t)
  \/ Invalidate
  \/ Tick

SpecToken == InitToken /\ [][NextToken]_vars

---------------------------------------------------------------------------
(* Part VI - core/base_client.py and core/resilience.py: the retry loop of *)
(* BaseAsyncClient._request                                                *)

\* the largest max_retries a client is built with
MaxAttempts == 3

\* resilience.py, line 22
RETRYABLE_STATUS_CODES == {429, 500, 502, 503, 504}

\* a response of the transport with its status
Response(status) == [status_code |-> status]

\* httpx.TransportError, raised by the transport instead of a response
TransportError == [type |-> "TransportError"]

\* the statuses of the responses to a request
RequestStatuses == {200, 400, 401, 403, 404, 429, 500, 502, 503, 504}

\* what the transport answers to one attempt
Answers == { Response(c) : c \in RequestStatuses } \cup {TransportError}

\* resilience.py, lines 25-31
is_retryable_error(exc) ==
  IF exc.type = "HTTPStatusError"
  THEN exc.status_code \in RETRYABLE_STATUS_CODES
  ELSE exc.type \in {"TransportError", "RateLimitError"}

\* base_client.py, lines 160-162: the body of one attempt, for an answer of the
\* transport
Attempt(answer) ==
  IF answer = TransportError
  THEN Raises(TransportError)
  ELSE LET checked == raise_for_status(answer.status_code)
       IN  IF IsRaise(checked) THEN checked ELSE Returns(answer)

InitRequest ==
  /\ FamilyIdle
  /\ PollIdle
  /\ OwnerIdle
  /\ CacheIdle
  /\ JpoIdle
  /\ ParserIdle
  /\ ExtractorIdle
  /\ CallIdle
  /\ SessionIdle
  /\ TokenIdle
  /\ max_retries \in 1..MaxAttempts
  /\ request_step = "call"
  /\ answers = <<>>
  /\ request_outcome = Pending

\* lines 150-160: _request is called and sends the request
Request ==
  /\ request_step = "call"
  /\ request_step' = "sent"
  /\ UNCHANGED <<max_retries, answers, request_outcome>>
  /\ UNCHANGED outside_request

\* lines 158-162 with the retryer of resilience.py, lines 50-55: the attempt is
\* answered.  A response that passes _raise_for_status is returned; an error
\* that is not retryable, or the error of the last attempt allowed, is raised
\* (reraise=True); else the retryer waits.
Answered ==
  /\ request_step = "sent"
  /\ \E answer \in Answers :
       LET result == Attempt(answer)
       IN  /\ answers' = Append(answers, answer)
           /\ IF IsReturn(result)
              THEN request_step' = "returned" /\ request_outcome' = result
              ELSE IF is_retryable_error(result.raised)
                      /\ ~(Len(answers') >= max_retries)
                   THEN request_step' = "wait" /\ UNCHANGED request_outcome
                   ELSE request_step' = "raised" /\ request_outcome' = result
  /\ UNCHANGED max_retries
  /\ UNCHANGED outside_request

\* resilience.py, line 52: the wait is over, the request is sent again
WaitOver ==
  /\ request_step = "wait"
  /\ request_step' = "sent"
  /\ UNCHANGED <<max_retries, answers, request_outcome>>
  /\ UNCHANGED outside_request

NextRequest ==
  \/ Request
  \/ Answered
  \/ WaitOver

SpecRequest == InitRequest /\ [][NextRequest]_vars

---------------------------------------------------------------------------
(* Part VII - jpo/client.py: JpoClient._request with RateLimiter.acquire   *)
(* and TokenManager.get_token.  Tasks of one event loop call _request; a   *)
(* step runs from one await to the next, so a call of acquire() or of      *)
(* get_token that does not have to wait is part of the step that makes it. *)
(* Time is followed through the sleep of acquire().  The TokenManager is   *)
(* the one of Part V, without the records Part V keeps for its callers.    *)

\* line 58
RATE_LIMIT_REQUESTS == 10

\* line 59
RATE_LIMIT_WINDOW == 60

\* line 306: stop_after_attempt(3)
JpoAttempts == 3

\* the statuses a JPO API endpoint answers a request with
JpoStatuses == {200, 401, 403, 429, 500}

\* the timestamps left by the requests the client has just made: one short
\* of the limit
EarlierTimestamps == [i \in 1..(RATE_LIMIT_REQUESTS - 1) |-> 0]

\* a call of _request: its retry_auth, the token of its headers, and the
\* number of the attempt of its retry loop
Frame(retry_auth) == [retry_auth |-> retry_auth, bearer |-> None, attempt |-> 0]

InitJpo ==
  /\ FamilyIdle
  /\ PollIdle
  /\ OwnerIdle
  /\ CacheIdle
  /\ ParserIdle
  /\ ExtractorIdle
  /\ CallIdle
  /\ SessionIdle
  /\ RequestIdle
  /\ token = None
  /\ token_expiry = 0
  /\ token_lock = 0
  /\ now = 0
  /\ caller = <<>>
  /\ got = <<>>
  /\ sent = <<>>
  /\ frames = [t \in Tasks |-> <<Frame(TRUE)>>]
  /\ jpo_at = [t \in Tasks |-> "call"]
  /\ jpo_result = [t \in Tasks |-> Pending]
  /\ spare = [t \in Tasks |-> 0]
  /\ invalidations = [t \in Tasks |-> 0]
  /\ timestamps = EarlierTimestamps
  /\ limiter_lock = 0
  /\ wake_at = 0

\* the calls of _request of a task with the innermost one changed
WithTop(calls, top_frame) == [calls EXCEPT ![Len(calls)] = top_frame]

\* the calls without the innermost one
Outer(calls) == SubSeq(calls, 1, Len(calls) - 1)

\* lines 299-311: the headers are built with the token and the first attempt
\* sends the request.  credit is the number of acquire() calls of the task
\* that have returned, less the API requests it has sent.
SendWith(t, calls, bearer, credit) ==
  /\ frames' = [frames EXCEPT ![t] =
                  WithTop(calls, [calls[Len(calls)] EXCEPT !.bearer = bearer,
                                                            !.attempt = 1])]
  /\ jpo_at' = [jpo_at EXCEPT ![t] = "request"]
  /\ spare' = [spare EXCEPT ![t] = credit - 1]

\* jpo/client.py lines 97-113: get_token with its lock.  The stored token is
\* returned if it is still valid at this time, and the request is sent; else
\* the token request is sent and the lock kept over the await.
WithTokenLock(t, calls, credit) ==
  IF TokenValid'
  THEN /\ SendWith(t, calls, token', credit)
       /\ UNCHANGED token_lock
  ELSE /\ frames' = [frames EXCEPT ![t] = calls]
       /\ jpo_at' = [jpo_at EXCEPT ![t] = "token_post"]
       /\ spare' = [spare EXCEPT ![t] = credit]
       /\ token_lock' = t

\* line 297: get_token is called.  A free lock is taken without a yield; else
\* the task waits for it.
CallGetToken(t, calls, credit) ==
  IF token_lock = 0
  THEN WithTokenLock(t, calls, credit)
  ELSE /\ frames' = [frames EXCEPT ![t] = calls]
       /\ jpo_at' = [jpo_at EXCEPT ![t] = "token_wait"]
       /\ spare' = [spare EXCEPT ![t] = credit]
       /\ UNCHANGED token_lock

RECURSIVE popleft(_, _)
\* lines 173-174, 184-185: the timestamps older than the window are dropped
popleft(stamps, time) ==
  IF stamps # <<>> /\ stamps[1] < time - RATE_LIMIT_WINDOW
  THEN popleft(Tail(stamps), time)
  ELSE stamps

\* lines 169-187: acquire() with its lock, up to its sleep, or to its end,
\* after which _request calls get_token (line 297)
Acquire(t, calls) ==
  LET stamps == popleft(timestamps, now)
      wait_time == stamps[1] + RATE_LIMIT_WINDOW - now
  IN  IF Len(stamps) >= RATE_LIMIT_REQUESTS /\ wait_time > 0
      THEN /\ timestamps' = stamps
           /\ limiter_lock' = t
           /\ wake_at' = now + wait_time
           /\ frames' = [frames EXCEPT ![t] = calls]
           /\ jpo_at' = [jpo_at EXCEPT ![t] = "acquire_sleep"]
           /\ UNCHANGED <<spare, token_lock>>
      ELSE /\ timestamps' = Append(stamps, now)
           /\ UNCHANGED <<limiter_lock, wake_at>>
           /\ CallGetToken(t, calls, spare[t] + 1)

\* line 294: acquire() is called.  A free lock is taken without a yield; else
\* the task waits for it.
CallAcquire(t, calls) ==
  IF limiter_lock = 0
  THEN Acquire(t, calls)
  ELSE /\ frames' = [frames EXCEPT ![t] = calls]
       /\ jpo_at' = [jpo_at EXCEPT ![t] = "acquire_wait"]
       /\ UNCHANGED <<timestamps, limiter_lock, wake_at, spare, token_lock>>

\* line 294: the outer call of _request
JpoRequest(t) ==
  /\ jpo_at[t] = "call"
  /\ UNCHANGED <<token, token_expiry, now>>
  /\ CallAcquire(t, frames[t])
  /\ UNCHANGED <<jpo_result, invalidations, caller, got, sent>>
  /\ UNCHANGED outside_jpo

\* line 169: the lock of the limiter is granted to a waiting task
AcquireGranted(t) ==
  /\ jpo_at[t] = "acquire_wait" /\ limiter_lock = 0
  /\ UNCHANGED <<token, token_expiry, now>>
  /\ Acquire(t, frames[t])
  /\ UNCHANGED <<jpo_result, invalidations, caller, got, sent>>
  /\ UNCHANGED outside_jpo

\* lines 181-187 and 297: the sleep of acquire() is over: wait_time has
\* passed; acquire() returns and _request calls get_token
AcquireSleepOver(t) ==
  /\ jpo_at[t] = "acquire_sleep"
  /\ now' = wake_at
  /\ UNCHANGED <<token, token_expiry>>
  /\ timestamps' = Append(popleft(timestamps, wake_at), wake_at)
  /\ limiter_lock' = 0
  /\ CallGetToken(t, frames[t], spare[t] + 1)
  /\ UNCHANGED <<jpo_result, invalidations, caller, got, sent, wake_at>>
  /\ UNCHANGED outside_jpo

\* jpo/client.py line 97: the lock of the TokenManager is granted to a
\* waiting task
JpoTokenLockGranted(t) ==
  /\ jpo_at[t] = "token_wait" /\ token_lock = 0
  /\ UNCHANGED <<token, token_expiry, now>>
  /\ WithTokenLock(t, frames[t], spare[t])
  /\ UNCHANGED <<jpo_result, invalidations, caller, got, sent>>
  /\ UNCHANGED <<timestamps, limiter_lock, wake_at>>
  /\ UNCHANGED outside_jpo

\* lines 105-133 and 299-311: the token request is answered with 200; the
\* token and its expiry are stored, the lock left, and the request sent with
\* the token
JpoTokenGranted(t) ==
  /\ jpo_at[t] = "token_post"
  /\ \E data \in TokenData :
       /\ token' = data.access_token
       /\ token_expiry' = now + get(data, "expires_in", 3600)
       /\ SendWith(t, frames[t], data.access_token, spare[t])
  /\ token_lock' = 0
  /\ UNCHANGED <<now, sent, caller, got>>
  /\ UNCHANGED <<jpo_result, invalidations, timestamps, limiter_lock, wake_at>>
  /\ UNCHANGED outside_jpo

RECURSIVE AttemptFails(_)
\* lines 305-310: an exception leaves the body of an attempt of the innermost
\* call.  The retryer retries every exception: it waits unless this was attempt
\* 3, and then raises the exception (reraise=True) into the attempt of the
\* call before, or to the caller of the outer call.
AttemptFails(calls) ==
  IF calls[Len(calls)].attempt < JpoAttempts
  THEN [at |-> "backoff", frames |-> calls]
  ELSE IF Len(calls) = 1
       THEN [at |-> "raised", frames |-> <<>>]
       ELSE AttemptFails(Outer(calls))

\* an exception leaves the innermost call from outside its retry loop
CallFails(calls) ==
  IF Len(calls) = 1
  THEN [at |-> "raised", frames |-> <<>>]
  ELSE AttemptFails(Outer(calls))

\* where the task goes on after an exception, and what the outer call raises
Fails(t, after, exc) ==
  /\ frames' = [frames EXCEPT ![t] = after.frames]
  /\ jpo_at' = [jpo_at EXCEPT ![t] = after.at]
  /\ jpo_result' = [jpo_result EXCEPT ![t] =
                      IF after.at = "raised" THEN Raises(exc) ELSE @]

\* lines 115-123, 135-140 and 297: the token request is answered with another
\* status; get_token leaves the lock and raises AuthenticationError with that
\* status, which leaves this call of _request
JpoTokenRefused(t) ==
  /\ jpo_at[t] = "token_post"
  /\ \E code \in TokenErrors :
       Fails(t, CallFails(frames[t]), ApiError("AuthenticationError", code))
  /\ token_lock' = 0
  /\ UNCHANGED <<token, token_expiry, now, sent, caller, got>>
  /\ UNCHANGED <<spare, invalidations, timestamps, limiter_lock, wake_at>>
  /\ UNCHANGED outside_jpo

\* lines 311-334: the request is answered.  401 or 403 with retry_auth: the
\* token is invalidated and _request called with retry_auth=False, inside the
\* attempt; 429: RateLimitError; another failure: ApiError; else the body is
\* returned, through the call before if there is one.  The calls of a task
\* are over when the outer one returns or raises.
JpoAnswered(t) ==
  /\ jpo_at[t] = "request"
  /\ \E status \in JpoStatuses :
       IF status \in {401, 403} /\ frames[t][Len(frames[t])].retry_auth
       THEN /\ token' = None
            /\ token_expiry' = 0
            /\ UNCHANGED now
            /\ invalidations' = [invalidations EXCEPT ![t] = @ + 1]
            /\ CallAcquire(t, Append(frames[t], Frame(FALSE)))
            /\ UNCHANGED jpo_result
       ELSE /\ IF status = 429
               THEN Fails(t, AttemptFails(frames[t]), ApiError("RateLimitError", status))
               ELSE IF ~is_success(status)
                    THEN Fails(t, AttemptFails(frames[t]), ApiError("ApiError", status))
                    ELSE /\ jpo_at' = [jpo_at EXCEPT ![t] = "returned"]
                         /\ jpo_result' = [jpo_result EXCEPT ![t] = Returns(status)]
                         /\ frames' = [frames EXCEPT ![t] = <<>>]
            /\ UNCHANGED <<token, token_expiry, now, invalidations>>
            /\ UNCHANGED <<spare, token_lock, timestamps, limiter_lock, wake_at>>
  /\ UNCHANGED <<caller, got, sent>>
  /\ UNCHANGED outside_jpo

\* lines 305-311: the wait of the retryer is over; the next attempt sends the
\* request again, with the headers built before the loop
JpoBackoffOver(t) ==
  /\ jpo_at[t] = "backoff"
  /\ frames' = [frames EXCEPT ![t] =
                  WithTop(@, [@[Len(@)] EXCEPT !.attempt = @ + 1])]
  /\ jpo_at' = [jpo_at EXCEPT ![t] = "request"]
  /\ spare' = [spare EXCEPT ![t] = @ - 1]
  /\ UNCHANGED <<jpo_result, invalidations, timestamps, limiter_lock, wake_at>>
  /\ UNCHANGED token_vars
  /\ UNCHANGED outside_jpo

NextJpo ==
  \E t \in Tasks :
    \/ JpoRequest(t)
    \/ AcquireGranted(t)
    \/ AcquireSleepOver(t)
    \/ JpoTokenLockGranted(t)
    \/ JpoTokenGranted(t)
    \/ JpoTokenRefused(t)
    \/ JpoAnswered(t)
    \/ JpoBackoffOver(t)

SpecJpo == InitJpo /\ [][NextJpo]_vars

---------------------------------------------------------------------------
(* Part VIII - google_patents/cache.py: CachingAsyncClient.get with        *)
(* PatentCache.get and PatentCache.set.  Tasks of one event loop call get  *)
(* inside 'async with'; the only await of get is the network request.      *)

\* the last reading of the clock
MaxCacheTime == 3

\* the URLs asked for
Urls == {"u1", "u2"}

\* the texts of the responses
Htmls == {"h1", "h2"}

\* the statuses the network answers with
NetworkStatuses == {200, 404}

\* the lifetimes a PatentCache is built with
Lifetimes == {1, 2}

\* line 55: _url_hash, the SHA-256 digest of the URL
url_hash(url) == <<"sha256", url>>

\* a call of get that has not been made
NoCall == [at |-> "idle", url |-> "", fetched |-> FALSE]

InitCache ==
  /\ FamilyIdle
  /\ PollIdle
  /\ OwnerIdle
  /\ ParserIdle
  /\ ExtractorIdle
  /\ CallIdle
  /\ SessionIdle
  /\ TokenIdle
  /\ RequestIdle
  /\ JpoIdle
  /\ html_cache = {}
  /\ ttl_seconds \in Lifetimes
  /\ use_cache \in BOOLEAN
  /\ cache_clock = 0
  /\ getting = [t \in Tasks |-> NoCall]
  /\ got_response = [t \in Tasks |-> Pending]
  /\ ok_responses = {}

\* lines 76-79 without the test of the age
ExpiredNever(row) == FALSE

\* line 76: the row is older than ttl_seconds
Expired(row) == cache_clock - row.cached_at > ttl_seconds

\* lines 64-82: PatentCache.get: the value returned and the table left
PatentCache_get(url) ==
  LET rows == {row \in html_cache : row.url_hash = url_hash(url)}
  IN  IF rows = {}
      THEN [value |-> None, table |-> html_cache]
      ELSE LET row == CHOOSE r \in rows : TRUE
           IN  IF Expired(row)
               THEN [value |-> None, table |-> html_cache \ rows]
               ELSE [value |-> <<row.html, row.status_code>>, table |-> html_cache]

\* lines 84-96: PatentCache.set: INSERT OR REPLACE on the primary key url_hash
PatentCache_set(url, html, status_code) ==
  {row \in html_cache : row.url_hash # url_hash(url)}
    \cup {[url_hash |-> url_hash(url), url |-> url, html |-> html,
           status_code |-> status_code, cached_at |-> cache_clock]}

\* lines 143-147: the response built from the cache, and line 160: the
\* response of the network; from_cache and answered_at tell them apart
HttpResponse(status_code, text, from_cache) ==
  [status_code |-> status_code, text |-> text, from_cache |-> from_cache,
   answered_at |-> cache_clock]

\* lines 135-152: get is called.  With a cache and a row that has not expired
\* the response is built from the row and returned; else the request is sent.
CachingGet(t) ==
  /\ getting[t].at # "network"
  /\ \E url \in Urls :
       LET looked == IF use_cache
                     THEN PatentCache_get(url)
                     ELSE [value |-> None, table |-> html_cache]
       IN  /\ html_cache' = looked.table
           /\ IF looked.value # None
              THEN /\ getting' = [getting EXCEPT ![t] =
                                    [at |-> "done", url |-> url, fetched |-> FALSE]]
                   /\ got_response' = [got_response EXCEPT ![t] =
                        Returns(HttpResponse(looked.value[2], looked.value[1], TRUE))]
              ELSE /\ getting' = [getting EXCEPT ![t] =
                                    [at |-> "network", url |-> url, fetched |-> TRUE]]
                   /\ got_response' = [got_response EXCEPT ![t] = Pending]
  /\ UNCHANGED <<ttl_seconds, use_cache, cache_clock, ok_responses>>
  /\ UNCHANGED outside_cache

\* lines 153-160: the network answers; a response with status 200 is stored
\* and every response is returned
NetworkAnswered(t) ==
  /\ getting[t].at = "network"
  /\ \E status \in NetworkStatuses, text \in Htmls :
       LET url == getting[t].url
       IN  /\ html_cache' = IF use_cache /\ status = 200
                            THEN PatentCache_set(url, text, status)
                            ELSE html_cache
           /\ ok_responses' =
                IF status = 200
                THEN {r \in ok_responses : r.url # url}
                       \cup {[url |-> url, text |-> text, at |-> cache_clock]}
                ELSE ok_responses
           /\ got_response' = [got_response EXCEPT ![t] =
                                 Returns(HttpResponse(status, text, FALSE))]
  /\ getting' = [getting EXCEPT ![t].at = "done"]
  /\ UNCHANGED <<ttl_seconds, use_cache, cache_clock>>
  /\ UNCHANGED outside_cache

\* line 153: the network request fails and get raises
NetworkFails(t) ==
  /\ getting[t].at = "network"
  /\ getting' = [getting EXCEPT ![t].at = "done"]
  /\ got_response' = [got_response EXCEPT ![t] = Raises("TransportError")]
  /\ UNCHANGED <<html_cache, ttl_seconds, use_cache, cache_clock, ok_responses>>
  /\ UNCHANGED outside_cache

\* time passes
CacheTick ==
  /\ cache_clock < MaxCacheTime
  /\ cache_clock' = cache_clock + 1
  /\ UNCHANGED <<html_cache, ttl_seconds, use_cache, getting, got_response, ok_responses>>
  /\ UNCHANGED outside_cache

NextCache ==
  \/ \E t \in Tasks :
       \/ CachingGet(t)
       \/ NetworkAnswered(t)
       \/ NetworkFails(t)
  \/ CacheTick

SpecCache == InitCache /\ [][NextCache]_vars

---------------------------------------------------------------------------
(* Part IX - core/base_client.py: BaseAsyncClient.__init__, close,         *)
(* __aenter__ and __aexit__.  Several BaseAsyncClient objects are built,   *)
(* each with its own HTTP client or with the one external client.          *)

\* the BaseAsyncClient objects
MaxClients == 3

\* the httpx.AsyncClient handed to the constructors
External == <<"<httpx.AsyncClient>">>

\* the HTTP clients: the external one, and the one built for each object
ExternalHttp == 0

\* a BaseAsyncClient that has not been constructed
Unbuilt ==
  [built |-> FALSE, owns_client |-> FALSE, given |-> None, http |-> ExternalHttp,
   inside |-> FALSE, calls |-> {}]

InitOwner ==
  /\ FamilyIdle
  /\ PollIdle
  /\ ParserIdle
  /\ ExtractorIdle
  /\ CallIdle
  /\ SessionIdle
  /\ TokenIdle
  /\ RequestIdle
  /\ JpoIdle
  /\ CacheIdle
  /\ base_clients = [i \in 1..MaxClients |-> Unbuilt]
  /\ is_closed = [h \in 0..MaxClients |-> FALSE]

\* line 61 with every client taken for an owned one
owns_always(client) == TRUE

\* line 61: _owns_client
owns(client) == client = None

\* lines 60-77: __init__: the given client is kept, or one is built
Construct(i) ==
  /\ ~base_clients[i].built
  /\ \E client \in {None, External} :
       base_clients' = [base_clients EXCEPT ![i] =
         [built |-> TRUE, owns_client |-> owns(client), given |-> client,
          http |-> IF client = None THEN i ELSE ExternalHttp,
          inside |-> FALSE, calls |-> {}]]
  /\ UNCHANGED is_closed
  /\ UNCHANGED outside_owner

\* lines 79-82: close() closes the HTTP client of an object that owns it
aclose_if_owned(i) ==
  IF base_clients[i].owns_client
  THEN [is_closed EXCEPT ![base_clients[i].http] = TRUE]
  ELSE is_closed

\* lines 79-82: close() is called
Close(i) ==
  /\ base_clients[i].built
  /\ is_closed' = aclose_if_owned(i)
  /\ base_clients' = [base_clients EXCEPT ![i].calls = @ \cup {"close"}]
  /\ UNCHANGED outside_owner

\* lines 84-85: __aenter__
Aenter(i) ==
  /\ base_clients[i].built /\ ~base_clients[i].inside
  /\ base_clients' = [base_clients EXCEPT ![i].inside = TRUE]
  /\ UNCHANGED is_closed
  /\ UNCHANGED outside_owner

\* lines 87-88: __aexit__ calls close(), whether or not the block raised
Aexit(i) ==
  /\ base_clients[i].built /\ base_clients[i].inside
  /\ is_closed' = aclose_if_owned(i)
  /\ base_clients' = [base_clients EXCEPT ![i].inside = FALSE,
                                          ![i].calls = @ \cup {"__aexit__"}]
  /\ UNCHANGED outside_owner

NextOwner ==
  \E i \in 1..MaxClients :
    \/ Construct(i)
    \/ Close(i)
    \/ Aenter(i)
    \/ Aexit(i)

SpecOwner == InitOwner /\ [][NextOwner]_vars

---------------------------------------------------------------------------
(* Part X - uspto_publications/client.py: PublicSearchClient.download_pdf  *)
(* with _request_save, _poll_print_job and _download_pdf_bytes.  Each task *)
(* downloads one document; the server runs one print job for each.         *)

\* the status codes the server answers a request with
PrintStatusCodes == {200, 500}

\* the statuses of a print job that is over
FinalPrintStatuses == {"COMPLETED", "FAILED"}

InitPoll ==
  /\ FamilyIdle
  /\ ParserIdle
  /\ ExtractorIdle
  /\ CallIdle
  /\ SessionIdle
  /\ TokenIdle
  /\ RequestIdle
  /\ JpoIdle
  /\ CacheIdle
  /\ OwnerIdle
  /\ print_at = [t \in Tasks |-> "ensure_session"]
  /\ print_status = [t \in Tasks |-> "none"]
  /\ print_result = [t \in Tasks |-> Pending]

\* download_pdf raises
PrintRaises(t, exc) ==
  /\ print_at' = [print_at EXCEPT ![t] = "raised"]
  /\ print_result' = [print_result EXCEPT ![t] = Raises(exc)]

\* lines 251-252 and 197-206: _ensure_session returns or raises; a document
\* without image location raises ValueError, else the save request is sent
SessionEnsured(t) ==
  /\ print_at[t] = "ensure_session"
  /\ \E refreshed, has_image_location \in BOOLEAN :
       IF ~refreshed THEN PrintRaises(t, "HTTPStatusError")
       ELSE IF ~has_image_location THEN PrintRaises(t, "ValueError")
       ELSE /\ print_at' = [print_at EXCEPT ![t] = "save"]
            /\ UNCHANGED print_result
  /\ UNCHANGED print_status
  /\ UNCHANGED outside_poll

\* lines 206-219 and 253: the save request is answered: 500 raises
\* PublicSearchError; else the server has queued a print job, and the first
\* poll is sent
SaveAnswered(t) ==
  /\ print_at[t] = "save"
  /\ \E code \in PrintStatusCodes :
       IF code = 500
       THEN /\ PrintRaises(t, "PublicSearchError")
            /\ UNCHANGED print_status
       ELSE /\ print_at' = [print_at EXCEPT ![t] = "poll"]
            /\ print_status' = [print_status EXCEPT ![t] = "QUEUED"]
            /\ UNCHANGED print_result
  /\ UNCHANGED outside_poll

\* the server ends the print job
JobEnds(t) ==
  /\ print_status[t] = "QUEUED"
  /\ \E status \in FinalPrintStatuses :
       print_status' = [print_status EXCEPT ![t] = status]
  /\ UNCHANGED <<print_at, print_result>>
  /\ UNCHANGED outside_poll

\* lines 223-233 and 254: the poll is answered: an error status raises; the
\* printStatus COMPLETED returns the name and the download is requested; any
\* other printStatus goes to sleep
PollAnswered(t) ==
  /\ print_at[t] = "poll"
  /\ \E code \in PrintStatusCodes :
       IF ~is_success(code)
       THEN PrintRaises(t, "HTTPStatusError")
       ELSE /\ print_at' = [print_at EXCEPT ![t] =
                              IF print_status[t] = "COMPLETED"
                              THEN "download" ELSE "sleep"]
            /\ UNCHANGED print_result
  /\ UNCHANGED print_status
  /\ UNCHANGED outside_poll

\* lines 233 and 222-227: the sleep is over and the next poll is sent
PollSleepOver(t) ==
  /\ print_at[t] = "sleep"
  /\ print_at' = [print_at EXCEPT ![t] = "poll"]
  /\ UNCHANGED <<print_status, print_result>>
  /\ UNCHANGED outside_poll

\* lines 235-248: the download is answered with the bytes or with an error
DownloadAnswered(t) ==
  /\ print_at[t] = "download"
  /\ \E code \in PrintStatusCodes :
       IF ~is_success(code)
       THEN PrintRaises(t, "HTTPStatusError")
       ELSE /\ print_at' = [print_at EXCEPT ![t] = "returned"]
            /\ print_result' = [print_result EXCEPT ![t] = Returns("bytes")]
  /\ UNCHANGED print_status
  /\ UNCHANGED outside_poll

NextPoll ==
  \E t \in Tasks :
    \/ SessionEnsured(t)
    \/ SaveAnswered(t)
    \/ JobEnds(t)
    \/ PollAnswered(t)
    \/ PollSleepOver(t)
    \/ DownloadAnswered(t)

SpecPoll == InitPoll /\ [][NextPoll]_vars

\* every request is answered, every sleep ends, and every print job ends
SpecPollLive ==
  /\ SpecPoll
  /\ \A t \in Tasks :
       /\ WF_vars(SessionEnsured(t))
       /\ WF_vars(SaveAnswered(t))
       /\ WF_vars(JobEnds(t))
       /\ WF_vars(PollAnswered(t))
       /\ WF_vars(PollSleepOver(t))
       /\ WF_vars(DownloadAnswered(t))

---------------------------------------------------------------------------
(* Part XI - uspto_odp/clients/applications.py: ApplicationsClient         *)
(* .get_family with _fetch_family_batch and                                *)
(* _fetch_single_application_record, over the continuity data of the API.  *)

\* the applications of the continuity graph
MaxApps == 3

\* the largest batch_size
MaxBatchSize == 2

Apps == 1..MaxApps

\* how the API answers for an application: in the batch search, only to the
\* single request, or not at all
Hows == {"batch", "single", "none"}

\* the root is resolved, and the search finds the others or nothing does
HowsOfApps ==
  {how \in [Apps -> Hows] :
     /\ how[1] # "none"
     /\ \A k \in Apps \ {1} : how[k] # "single"}

\* the applicationNumberText of application k, as the API writes it
NumberText(k) == <<" ", "16", "/", DigitChar(k)>>

\* clients/base.py lines 150-153: _normalize_application_number
normalize_application_number(application_number) ==
  SelectSeq(strip(application_number), LAMBDA c : c \notin {"/", ",", " "})

\* the normalized number of each application
Normalized == [k \in Apps |-> normalize_application_number(NumberText(k))]

\* the application with this normalized number, for sorted(): the numbers of
\* the model sort as their applications do
AppOf(number) == CHOOSE k \in Apps : Normalized[k] = number

\* the records of the API for a relation of parents: each application lists
\* its parents and its children
Records(parent_of, how) ==
  [k \in Apps |->
     [how |-> how[k],
      applicationNumberText |-> NumberText(k),
      parentContinuityBag |->
        {NumberText(p) : p \in {q \in Apps : <<q, k>> \in parent_of}},
      childContinuityBag |->
        {NumberText(c) : c \in {q \in Apps : <<k, q>> \in parent_of}}]]

\* lines 256-261: the sets and keys at the start of the loop, bar the root
NoWalk == [visited |-> {}, to_visit |-> {}, nodes |-> {}, edge_keys |-> {}, missing |-> {}]

InitFamily ==
  /\ ParserIdle
  /\ ExtractorIdle
  /\ CallIdle
  /\ SessionIdle
  /\ TokenIdle
  /\ RequestIdle
  /\ JpoIdle
  /\ CacheIdle
  /\ OwnerIdle
  /\ PollIdle
  /\ records = <<>>
  /\ batch_size = 0
  /\ family_at = "call"
  /\ walk = NoWalk
  /\ batch = <<>>
  /\ requested = {}
  /\ requested_again = {}

RECURSIVE sorted(_)
\* sorted() of a set of application numbers
sorted(numbers) ==
  IF numbers = {} THEN <<>>
  ELSE LET first == CHOOSE n \in numbers :
                      \A m \in numbers : AppOf(n) <= AppOf(m)
       IN  <<first>> \o sorted(numbers \ {first})

\* lines 347-375: _fetch_family_batch: the applications the search finds
Found(application_numbers) ==
  {k \in Apps :
     /\ records[k].how = "batch"
     /\ \E i \in 1..Len(application_numbers) :
          normalize_application_number(application_numbers[i]) = Normalized[k]}

\* lines 377-389: _fetch_single_application_record: the application found,
\* or 0 for None
Single(application_number) ==
  LET answers_for == {k \in Apps :
                  /\ records[k].how # "none"
                  /\ Normalized[k] = normalize_application_number(application_number)}
  IN  IF answers_for = {} THEN 0 ELSE CHOOSE k \in answers_for : TRUE

\* lines 291 and 316 with every number put into to_visit
unseen_always(number, seen, gone) == TRUE

\* lines 291 and 316: the number is neither visited nor missing
unseen(number, seen, gone) == number \notin seen /\ number \notin gone

\* lines 279-331: the loop body for one item of batch_results
Visit(key, record, st) ==
  LET normalized_app == normalize_application_number(key)
      seen     == st.visited \cup {normalized_app}
      parents  == {normalize_application_number(raw) : raw \in record.parentContinuityBag}
      children == {normalize_application_number(raw) : raw \in record.childContinuityBag}
  IN  [visited   |-> seen,
       nodes     |-> st.nodes \cup {normalized_app} \cup parents \cup children,
       to_visit  |-> st.to_visit
                       \cup {n \in parents \cup children : unseen(n, seen, st.missing)},
       edge_keys |-> st.edge_keys
                       \cup {<<p, normalized_app>> : p \in parents}
                       \cup {<<normalized_app, c>> : c \in children},
       missing   |-> st.missing]

\* body(value), the value being computed once
With(value, body(_)) == CHOOSE result \in {body(v) : v \in {value}} : TRUE

RECURSIVE VisitAll(_, _)
\* line 279: for app_num, record in batch_results.items()
VisitAll(items, st) ==
  IF items = <<>> THEN st
  ELSE With(Visit(items[1].key, items[1].record, st),
            LAMBDA after : VisitAll(Tail(items), after))

\* the orders in which the search can return the applications it finds
Orders(apps) ==
  {order \in [1..Cardinality(apps) -> apps] :
     \A i, j \in 1..Cardinality(apps) : order[i] = order[j] => i = j}

\* lines 267-277: batch_results after the search has returned the records
\* of the applications of order and the applications it did not find have
\* been requested one by one, and the numbers nothing was found for
BatchResults(order) ==
  LET from_search == [i \in 1..Len(order) |->
                        [key |-> normalize_application_number(
                                   records[order[i]].applicationNumberText),
                         record |-> records[order[i]]]]
      in_results  == {normalize_application_number(
                        records[order[i]].applicationNumberText) : i \in 1..Len(order)}
      unresolved  == SelectSeq(batch, LAMBDA app : app \notin in_results)
      singles     == [i \in 1..Len(unresolved) |->
                        [key |-> unresolved[i], app |-> Single(unresolved[i])]]
      resolved    == SelectSeq(singles, LAMBDA single : single.app # 0)
      from_single == [i \in 1..Len(resolved) |->
                        [key |-> resolved[i].key, record |-> records[resolved[i].app]]]
  IN  [items |-> from_search \o from_single,
       gone  |-> {singles[i].key : i \in {j \in 1..Len(singles) : singles[j].app = 0}}]

\* lines 267-331: the body of the loop: the numbers nothing was found for
\* are missing, and the items of batch_results are gone through
LoopBody(order) ==
  With(BatchResults(order),
       LAMBDA results :
         VisitAll(results.items,
                  [walk EXCEPT !.missing = @ \cup results.gone,
                               !.visited = @ \cup results.gone,
                               !.nodes = @ \cup results.gone]))

\* lines 232-261: get_family is called with a batch_size of at least 1, for
\* application 1 of some continuity data; the identifier is resolved and
\* to_visit holds the normalized root
GetFamily ==
  /\ family_at = "call"
  /\ \E parent_of \in SUBSET (Apps \X Apps), how \in HowsOfApps :
       records' = Records(parent_of, how)
  /\ batch_size' \in 1..MaxBatchSize
  /\ walk' = [walk EXCEPT !.to_visit =
                {normalize_application_number(records'[1].applicationNumberText)}]
  /\ family_at' = "loop"
  /\ UNCHANGED <<batch, requested, requested_again>>
  /\ UNCHANGED outside_family

\* lines 263-265: a batch is taken out of to_visit and requested
TakeBatch ==
  /\ family_at = "loop" /\ walk.to_visit # {}
  /\ LET ordered == sorted(walk.to_visit)
         taken   == SubSeq(ordered, 1, IF batch_size < Len(ordered)
                                       THEN batch_size ELSE Len(ordered))
         numbers == {taken[i] : i \in 1..Len(taken)}
     IN  /\ batch' = taken
         /\ walk' = [walk EXCEPT !.to_visit = @ \ numbers]
         /\ requested' = requested \cup numbers
         /\ requested_again' = requested_again \cup (requested \cap numbers)
  /\ family_at' = "fetch"
  /\ UNCHANGED <<records, batch_size>>
  /\ UNCHANGED outside_family

\* lines 267-331: the search is answered and the body of the loop is run
BatchAnswered ==
  /\ family_at = "fetch"
  /\ \E order \in Orders(Found(batch)) : walk' = LoopBody(order)
  /\ family_at' = "loop"
  /\ batch' = <<>>
  /\ UNCHANGED <<records, batch_size, requested, requested_again>>
  /\ UNCHANGED outside_family

\* lines 262 and 333-344: to_visit is empty and the graph is returned
ReturnFamily ==
  /\ family_at = "loop" /\ walk.to_visit = {}
  /\ family_at' = "returned"
  /\ UNCHANGED <<records, batch_size, walk, batch, requested, requested_again>>
  /\ UNCHANGED outside_family

NextFamily ==
  \/ GetFamily
  \/ TakeBatch
  \/ BatchAnswered
  \/ ReturnFamily

SpecFamily == InitFamily /\ [][NextFamily]_vars

\* every API call returns, and the loop goes on
SpecFamilyLive ==
  /\ SpecFamily
  /\ WF_vars(TakeBatch)
  /\ WF_vars(BatchAnswered)
  /\ WF_vars(ReturnFamily)

---------------------------------------------------------------------------
(* Properties of ClaimsParser.parse                                        *)

SeqRange(q) == { q[i] : i \in 1..Len(q) }

Returned == pc = "done"

\* The text that _parse_claim_string reads dependencies and limitations from:
\* the claim string without its number prefix (the whole string when it has none).
BodyOf(string) ==
  IF NUMBER_RE_search(string, 1) = 0 THEN string
  ELSE NUMBER_RE_sub(string, NUMBER_RE_search(string, 1))

\* C1: after parse returns, the numbers in P.dependent_claims are exactly the
\* numbers of the returned claims whose depends_on holds P.number, for every
\* returned claim P (so a reference to an absent number adds nothing).
C1_DependentsInvertDependsOn ==
  Returned =>
    \A p \in 1..Len(claim_data) :
      SeqRange(claim_data[p].dependent_claims)
        = { claim_data[c].number :
              c \in { d \in 1..Len(claim_data) :
                        claim_data[p].number \in SeqRange(claim_data[d].depends_on) } }

\* C2: no returned claim holds its own number in its dependent_claims.
C2_NoClaimDependsOnItself ==
  Returned =>
    \A p \in 1..Len(claim_data) :
      claim_data[p].number \notin SeqRange(claim_data[p].dependent_claims)

\* C3: for the single-line widget text parse returns exactly two claims: claim 1
\* with empty depends_on, and claim 2 with depends_on = [1] and a limitation
\* that contains "wherein the motor is electric".
C3_MarkerAnywhereStartsClaim ==
  (Returned /\ claim_text = WidgetText) =>
    /\ Len(claim_data) = 2
    /\ claim_data[1].number = 1 /\ claim_data[1].depends_on = <<>>
    /\ claim_data[2].number = 2 /\ claim_data[2].depends_on = <<1>>
    /\ \E k \in 1..Len(claim_data[2].limitations) :
         "wherein the motor is electric" \in SeqRange(claim_data[2].limitations[k])

\* A claim-number token of the form N-M. or N-M)
IsRangeToken(t) ==
  LET e1 == RunEnd(t, 1, Digits)
      e2 == RunEnd(t, e1 + 1, Digits)
  IN  /\ e1 > 1 /\ e1 <= Len(t) /\ t[e1] = "-"
      /\ e2 > e1 + 1 /\ e2 = Len(t) /\ t[e2] \in {".", ")"}

RangeLow(t) == int(SubSeq(t, 1, RunEnd(t, 1, Digits) - 1))

RangeHigh(t) ==
  LET e1 == RunEnd(t, 1, Digits)
  IN  int(SubSeq(t, e1 + 1, RunEnd(t, e1 + 1, Digits) - 1))

\* The (claim_number, claim_body) pairs of the text whose number token is a
\* range N-M with N <= M and whose body is not empty.
RangePairs ==
  LET grouped == Grouped(claim_text)
  IN  { g \in 1..Len(grouped) :
          /\ grouped[g][1] # None /\ IsRangeToken(grouped[g][1])
          /\ RangeLow(grouped[g][1]) <= RangeHigh(grouped[g][1])
          /\ grouped[g][2] \notin {<<>>, None} }

C5_LimitationsNeverEmpty ==
  Returned =>
    \A c \in 1..Len(claim_data) :
      /\ claim_data[c].limitations # <<>>
      /\ \A k \in 1..Len(claim_data[c].limitations) :
           claim_data[c].limitations[k] # <<>>

\* C6: parse raises for no input, and a claim whose number cannot be parsed is
\* returned with number 0 and empty depends_on.
C6_ParseNeverRaises ==
  /\ pc # "raised"
  /\ Returned =>
       \A c \in 1..Len(claim_data) :
         NUMBER_RE_search(claim_strings[c], 1) = 0 =>
           claim_data[c].number = 0 /\ claim_data[c].depends_on = <<>>

\* Where the number list of the first phrase "claim(s) <number-list>" of the
\* body starts (a number list starts with a number), or 0.
NumberListStart(body) ==
  LET at(i) == IF body[i] # "claim" THEN 0
               ELSE IF i + 3 <= Len(body) /\ body[i + 1] = "s" /\ body[i + 2] = " "
                       /\ body[i + 3] \in Digits THEN i + 3
               ELSE IF i + 2 <= Len(body) /\ body[i + 1] = " "
                       /\ body[i + 2] \in Digits THEN i + 2
               ELSE 0
      hits  == { i \in 1..Len(body) : at(i) # 0 }
  IN  IF hits = {} THEN 0 ELSE at(CHOOSE i \in hits : \A j \in hits : i <= j)

\* The integers of the comma/"or"-separated list that starts at a.
RECURSIVE NumberList(_, _)
NumberList(body, a) ==
  LET e    == RunEnd(body, a, Digits)
      next == RunEnd(body, e, {",", " ", "o", "r"})
  IN  IF a > Len(body) \/ body[a] \notin Digits THEN <<>>
      ELSE <<int(SubSeq(body, a, e - 1))>> \o NumberList(body, next)

HasCatchAll(body) ==
  \E i \in 1..Len(body) :
    /\ body[i] \in {"anyOfTheForegoing", "anyOfThePrevious"}
    /\ i + 3 <= Len(body)
    /\ body[i + 1] = " " /\ body[i + 2] = "claim" /\ body[i + 3] = "s"

\* C7: a returned claim whose number n was parsed depends on exactly the integers
\* of the number list of its "claim(s) <number-list>" phrase; without such a
\* phrase but with "any of the foregoing/previous claims", on 1..n-1; otherwise
\* on nothing.
C7_DependsOnFollowsPhrases ==
  Returned =>
    \A c \in { d \in 1..Len(claim_data) : NUMBER_RE_search(claim_strings[d], 1) # 0 } :
      LET body == BodyOf(claim_strings[c])
          n    == claim_data[c].number
      IN  claim_data[c].depends_on
            = IF NumberListStart(body) # 0 THEN NumberList(body, NumberListStart(body))
              ELSE IF HasCatchAll(body) THEN [k \in 1..(n - 1) |-> k]
              ELSE <<>>

\* C8: no two returned claims have the same number.
C8_NumbersUnique ==
  Returned =>
    \A i, j \in 1..Len(claim_data) :
      i # j => claim_data[i].number # claim_data[j].number

---------------------------------------------------------------------------
(* Properties of extract_claims                                            *)

\* a text without its white space
NonWS(value) ==
  IF value = None THEN <<>> ELSE SelectSeq(value, LAMBDA c : c \notin WS)

IsContainer(n) == IsClaimTextDiv(n) \/ IsClaimTextElement(n)

\* The text a container owns directly: its text, its children that are not
\* claim-text containers, and the tails of all its children.
OwnText(container) ==
  container.text
  \o Flatten([k \in 1..Len(container.children) |->
       LET child == container.children[k]
       IN  (IF IsContainer(child) THEN <<>> ELSE text_content(child)) \o child.tail])

\* The own texts of a container and of the containers nested in it, in pre-order.
RECURSIVE PreOrder(_)
PreOrder(container) ==
  LET nested == SelectSeq(container.children, IsContainer)
  IN  (IF NonWS(OwnText(container)) # <<>> THEN <<NonWS(OwnText(container))>> ELSE <<>>)
      \o Flatten([k \in 1..Len(nested) |-> PreOrder(nested[k])])

OwnTexts(claim_element) ==
  LET top == SelectSeq(claim_element.children, IsContainer)
  IN  Flatten([k \in 1..Len(top) |-> PreOrder(top[k])])

HasNestedContainers(claim_element) ==
  \E k \in 1..Len(claim_element.children) :
    /\ IsContainer(claim_element.children[k])
    /\ \E j \in 1..Len(claim_element.children[k].children) :
         IsContainer(claim_element.children[k].children[j])

\* C9: for every visited claim element whose claim-text containers are nested,
\* the limitations found (before the number strip and the re-split) are, white
\* space apart, the own texts of its containers in pre-order: each entry is all
\* of one container's text outside its nested containers and nothing of theirs.
C9_LimitationsAreOwnTextsInPreOrder ==
  \A k \in 1..Len(visited) :
    HasNestedContainers(visited[k]) =>
      [j \in 1..Len(found[k]) |-> NonWS(found[k][j])] = OwnTexts(visited[k])

\* the text of n inside google-src-text spans, in document order
RECURSIVE InsideSrc(_)
InsideSrc(n) ==
  Flatten([k \in 1..Len(n.children) |->
     IF IsSrcSpan(n.children[k]) THEN text_content(n.children[k])
     ELSE InsideSrc(n.children[k])])

\* the text of n outside google-src-text spans, in document order
RECURSIVE OutsideSrc(_)
OutsideSrc(n) ==
  n.text
  \o Flatten([k \in 1..Len(n.children) |->
       (IF IsSrcSpan(n.children[k]) THEN <<>> ELSE OutsideSrc(n.children[k]))
       \o n.children[k].tail])

HasSrcSpans(claim_element) ==
  \E k \in 1..Len(Descendants(claim_element)) : IsSrcSpan(Descendants(claim_element)[k])

\* C10: for every visited claim element with google-src-text spans, white space
\* and the leading claim number apart, the claim's text is all the text outside
\* the spans (tails of the spans and text of notranslate wrappers included) and
\* its original_text is all the text inside them.
C10_TextsPartitionTheClaim ==
  \A k \in 1..Len(visited) :
    HasSrcSpans(visited[k]) =>
      /\ NonWS(claims[k].text)
           = NonWS(strip_leading_number(normalize_spaces(OutsideSrc(visited[k]))))
      /\ NonWS(claims[k].original_text)
           = NonWS(strip_leading_number(normalize_spaces(InsideSrc(visited[k]))))

\* C11: a call made again with the same input gives what the calls before it
\* gave (extract_claims the same three results; ClaimsParser.parse the same list,
\* or the same exception), and extract_claims never changes the tree it was given.
C11_SameInputSameOutput ==
  /\ [](pc \in {"done", "raised"} =>
          \A k \in 1..Len(returned) : returned[k] = [pc |-> pc, claim_data |-> claim_data])
  /\ [](step = "done" =>
          \A k \in 1..Len(earlier) :
            earlier[k] = <<claims, structured_limitations, original_limitations>>)
  /\ [][document' = document]_vars

\* a second call of extract_claims has returned for a tree with a bilingual claim
C11_Witness ==
  /\ step = "done" /\ earlier # <<>>
  /\ \E k \in 1..Len(visited) : HasSrcSpans(visited[k])

---------------------------------------------------------------------------
(* Properties of the functions without state                               *)

\* the elements of an XML document, its root included
XmlNodes(root) == <<root>> \o XmlDescendants(root)

HasSchemeNode(root) ==
  \E k \in 1..Len(XmlNodes(root)) : XmlNodes(root)[k].tag = "cpc:class-scheme"

\* the classification items of a parsed scheme, at every depth
RECURSIVE ParsedItems(_)
ParsedItems(items) ==
  Flatten([k \in 1..Len(items) |-> <<items[k]>> \o ParsedItems(items[k].children)])

\* C12: parse_cpc_retrieval raises XmlParseError exactly when the document has no
\* cpc:class-scheme node; with the node and no classification-item in it the
\* scheme's items are empty, and an item without nested items has children == [].
C12_RaisesIffNoSchemeNode ==
  (call.function = "parse_cpc_retrieval" /\ outcome # Pending) =>
    /\ outcome = Raises("XmlParseError") <=> ~HasSchemeNode(call.argument)
    /\ IsReturn(outcome) =>
         LET scheme_node == SelectSeq(XmlNodes(call.argument),
                                      LAMBDA n : n.tag = "cpc:class-scheme")[1]
         IN  /\ XmlChildren(scheme_node, "cpc:classification-item") = <<>>
                  => outcome.returned.scheme.items = <<>>
             /\ Len(ParsedItems(outcome.returned.scheme.items))
                  = Len(SelectSeq(XmlDescendants(scheme_node),
                                  LAMBDA n : n.tag = "cpc:classification-item"))

\* the composite of the first document-id in ids: country, number and kind put
\* together when all three are there, and None otherwise
Composite(ids, ns) ==
  IF ids = <<>> THEN None
  ELSE LET country    == text_of(ids[1], ns \o "country")
           doc_number == text_of(ids[1], ns \o "doc-number")
           kind       == text_of(ids[1], ns \o "kind")
       IN  IF None \in {country, doc_number, kind} THEN None
           ELSE country \o doc_number \o kind

\* the document-id elements of a document, in the namespace ns
IdsOf(root, ns) ==
  SelectSeq(XmlDescendants(root), LAMBDA n : n.tag = ns \o "document-id")

\* C13: each composite number is country + doc-number + kind of its document-id
\* when the three parts are there, and None when any of them is missing.
C13_CompositeAllOrNone ==
  outcome # Pending =>
    /\ call.function = "parse_search_response" =>
         outcome.returned[1].docdb_number = Composite(IdsOf(call.argument, "epo:"), "epo:")
    /\ call.function = "parse_biblio_response" =>
         outcome.returned[1].docdb_number = Composite(IdsOf(call.argument, "epo:"), "epo:")
    /\ call.function = "parse_claims" =>
         outcome.returned.docdb_number = Composite(IdsOf(call.argument, "ft:"), "ft:")
    /\ call.function = "parse_family" =>
         /\ outcome.returned[1].publication_number
              = Composite(ReferenceIds(call.argument, "epo:publication-reference"), "epo:")
         /\ outcome.returned[1].application_number
              = Composite(ReferenceIds(call.argument, "epo:application-reference"), "epo:")

\* the first six characters of value are digits
SixDigits(value) ==
  /\ value # None /\ Len(value) >= 6
  /\ \A k \in 1..6 : value[k] \in Digits

\* C14: _parse_month never raises; for a value that begins with six digits
\* YYYYMM, month 01..12, year not 0000, it returns YYYY-MM-01, and None for
\* every other value.
C14_ParseMonthNeverRaises ==
  (call.function = "_parse_month" /\ outcome # Pending) =>
    LET value == call.argument
        good  == /\ SixDigits(value)
                 /\ int(SubSeq(value, 5, 6)) \in 1..12
                 /\ int(SubSeq(value, 1, 4)) # 0
    IN  outcome = IF good
                  THEN Returns(SubSeq(value, 1, 4) \o <<"-">> \o SubSeq(value, 5, 6)
                               \o <<"-", "0", "1">>)
                  ELSE Returns(None)

\* some source field of the mapping holds a non-empty value at the index
UsableAt(data, mapping, index) ==
  \E k \in 1..Len(mapping) :
    ValueAt(data[mapping[k].source], index) \notin {None, <<>>}

\* C15: _zip_records returns the records of exactly the positions at which some
\* mapped source field holds a non-empty value, in order; a position at which
\* every source value is None or empty gives no record.
C15_NoRecordWithoutSourceValue ==
  (call.function = "_zip_records" /\ outcome # Pending) =>
    LET data    == call.argument.data
        mapping == call.argument.mapping
        usable  == SelectSeq([i \in 1..MaxLen(data, mapping) |-> i],
                             LAMBDA i : UsableAt(data, mapping, i))
    IN  outcome = Returns([j \in 1..Len(usable) |-> RecordAt(data, mapping, usable[j])])

\* C16: a claim returned by extract_claims has type "independent" exactly when
\* its depends_on is None.
C16_IndependentIffNoParent ==
  \A k \in 1..Len(claims) :
    claims[k].type = "independent" <=> claims[k].depends_on = None

---------------------------------------------------------------------------
(* Properties of the clients                                               *)

\* C17: at most one task of a PublicSearchClient is inside _refresh_session at
\* any time, whether it came from _ensure_session or from a 403 in _request.
C17_OneRefreshAtATime ==
  \A t, u \in DOMAIN where : (Refreshing(t) /\ Refreshing(u)) => t = u

\* the callers whose token request is in flight
Posting == { t \in DOMAIN caller : caller[t] = "post" }

\* a caller obtains _lock in this step
ObtainsLock(t) ==
  /\ caller[t] \in {"call", "wait_lock"}
  /\ caller'[t] \in {"returned", "post"}

\* C18: at most one token request of a TokenManager is in flight at any time,
\* and a caller that obtains the lock while the stored token is more than 60
\* seconds from its expiry returns that token and sends no token request.
C18_OneTokenRequestAtATime ==
  /\ [](Cardinality(Posting) <= 1)
  /\ [][\A t \in DOMAIN caller :
          (ObtainsLock(t) /\ token # None /\ token_expiry - now > 60)
            => /\ caller'[t] = "returned"
               /\ got'[t] = Returns(token)
               /\ sent'[t] = sent[t]]_vars

\* a caller waited while another sent the token request, then returned the
\* stored token without a request of its own, after some time had passed
C18_Witness ==
  \E t, u \in DOMAIN caller :
    /\ caller[t] = "returned" /\ sent[t] = 0 /\ got[t] = Returns(token)
    /\ sent[u] = 1
    /\ now > 0

\* the error the claim names for a status that is not a success
TypedError(status) ==
  CASE status = 404 -> "NotFoundError"
    [] status = 429 -> "RateLimitError"
    [] status \in {401, 403} -> "AuthenticationError"
    [] status \in 500..599 -> "ServerError"
    [] OTHER -> "ApiError"

\* C19: _raise_for_status returns without raising exactly for the statuses
\* 200..299; for every other status it raises the one error chosen by the
\* status (404 NotFoundError, 429 RateLimitError, 401 and 403
\* AuthenticationError, 500..599 ServerError, else ApiError), which carries
\* the status code.
C19_TypedErrorByStatus ==
  (call.function = "_raise_for_status" /\ outcome # Pending) =>
    LET status == call.argument
    IN  /\ IsReturn(outcome) <=> status \in 200..299
        /\ status \notin 200..299 =>
             outcome = Raises([type |-> TypedError(status), status_code |-> status])

\* _raise_for_status has raised AuthenticationError for a 403
C19_Witness ==
  /\ call.function = "_raise_for_status" /\ call.argument = 403
  /\ IsRaise(outcome)
  /\ outcome.raised.type = "AuthenticationError"

\* a transient failure: a transport error, or a response with a status of
\* RETRYABLE_STATUS_CODES
Transient(answer) ==
  \/ answer = TransportError
  \/ answer # TransportError /\ answer.status_code \in {429, 500, 502, 503, 504}

\* the response passed for a success
Succeeded(answer) ==
  answer # TransportError /\ answer.status_code \in 200..299

\* C20: when _request is over, every attempt before the last got a transient
\* failure; a last attempt that succeeded is returned; a last attempt that
\* failed is raised, and if its failure is transient it is attempt number
\* max_retries.  While _request is not over, the last failure was transient.
C20_TransientFailuresAreRetried ==
  /\ \A i \in 1..(Len(answers) - 1) : Transient(answers[i])
  /\ request_step = "wait" => Transient(answers[Len(answers)])
  /\ request_step \in {"returned", "raised"} =>
       LET last == answers[Len(answers)]
       IN  /\ Succeeded(last) <=> request_step = "returned"
           /\ request_step = "returned" => request_outcome = Returns(last)
           /\ request_step = "raised" => request_outcome = Attempt(last)
           /\ (request_step = "raised" /\ Transient(last))
                => Len(answers) = max_retries

\* C21: within one outer call of JpoClient._request the token is invalidated
\* at most once, whatever the re-issued request is answered.
C21_OneInvalidationPerCall ==
  \A t \in DOMAIN invalidations : invalidations[t] <= 1

\* C22: an outer call of JpoClient._request that ends with the error of a 401
\* or 403 answer raises AuthenticationError.
C22_AuthFailureIsAuthenticationError ==
  \A t \in DOMAIN jpo_result :
    (IsRaise(jpo_result[t]) /\ jpo_result[t].raised.status_code \in {401, 403})
      => jpo_result[t].raised.type = "AuthenticationError"

\* C23: at every point the API requests a task has sent in JpoClient._request,
\* re-sends of the retry loop included, are at most as many as its calls of
\* acquire() that have returned.
C23_EveryRequestHasItsAcquire ==
  \A t \in DOMAIN spare : spare[t] >= 0

\* the task calls invalidate() in this step, for the first time, after
\* another task whose request had the same bearer token has called it
InvalidatesAfterAnother(t) ==
  /\ invalidations[t] = 0 /\ invalidations'[t] = 1
  /\ \E u \in DOMAIN invalidations \ {t} :
       /\ invalidations[u] >= 1
       /\ frames[u] # <<>>
       /\ frames[u][1].bearer = frames[t][1].bearer

\* C27: of several requests sent with one bearer token and answered 401 or
\* 403, a later one invalidates no token acquired after the invalidation of an
\* earlier one: the token stored when it calls invalidate() is none, or still
\* the token the requests were sent with.
C27_NewTokenIsNotInvalidated ==
  [][\A t \in DOMAIN invalidations :
       InvalidatesAfterAnother(t) => token \in {None, frames[t][1].bearer}]_vars


\* every row of the cache is the latest network response with status 200
\* to its URL, with the time it was received
RowsAreOkResponses ==
  \A row \in html_cache :
    /\ row.status_code = 200
    /\ row.url_hash = url_hash(row.url)
    /\ [url |-> row.url, text |-> row.html, at |-> row.cached_at] \in ok_responses

\* the task calls get in this step
CallsGet(t) ==
  /\ getting[t].at # "network"
  /\ <<getting[t], got_response[t]>>' # <<getting[t], got_response[t]>>

\* C24: a call of CachingAsyncClient.get that returns from the cache returns
\* the row of the identical URL, stored from a network response with status
\* 200 no more than ttl_seconds earlier, and sends no request; a call that
\* does not return from the cache sends the request, and a row of its URL
\* older than ttl_seconds is deleted by the lookup; only responses with
\* status 200 are stored.
C24_CacheHitIsFresh200 ==
  /\ []RowsAreOkResponses
  /\ [](\A t \in DOMAIN got_response :
          (IsReturn(got_response[t]) /\ got_response[t].returned.from_cache)
            => ~getting[t].fetched)
  /\ [][\A t \in DOMAIN getting :
          CallsGet(t) =>
            LET url == getting'[t].url
                rows == {row \in html_cache : row.url = url}
            IN  IF getting'[t].at = "done"
                THEN /\ use_cache
                     /\ \E row \in rows :
                          /\ row.status_code = 200
                          /\ cache_clock - row.cached_at <= ttl_seconds
                          /\ [url |-> url, text |-> row.html, at |-> row.cached_at]
                               \in ok_responses
                          /\ got_response'[t] =
                               Returns(HttpResponse(row.status_code, row.html, TRUE))
                     /\ ~getting'[t].fetched
                     /\ html_cache' = html_cache
                ELSE /\ getting'[t].at = "network"
                     /\ \A row \in rows :
                          /\ cache_clock - row.cached_at > ttl_seconds
                          /\ row \notin html_cache']_vars

\* a call has returned from the cache a row stored at an earlier time, and a
\* row that had expired has been deleted by the lookup of a call now waiting
\* for the network
C24_Witness ==
  \E t, u \in DOMAIN got_response :
    /\ IsReturn(got_response[t])
    /\ got_response[t].returned.from_cache
    /\ got_response[t].returned.answered_at > 0
    /\ getting[u].at = "network"
    /\ html_cache = {}
    /\ \E r \in ok_responses : r.url = getting[u].url /\ cache_clock - r.at > ttl_seconds


\* C25: a BaseAsyncClient built without a client has _owns_client True, and
\* its HTTP client is closed once close() or __aexit__ has been called; one
\* built with the external client has _owns_client False, and the external
\* client is never closed, whatever close() and __aexit__ calls are made.
C25_ClosesOnlyOwnedClient ==
  /\ \A i \in DOMAIN base_clients :
       base_clients[i].built =>
         /\ base_clients[i].given = None =>
              /\ base_clients[i].owns_client
              /\ base_clients[i].calls # {} => is_closed[base_clients[i].http]
         /\ base_clients[i].given = External =>
              /\ ~base_clients[i].owns_client
              /\ base_clients[i].http = ExternalHttp
  /\ DOMAIN base_clients # {} => ~is_closed[ExternalHttp]

\* one object built without a client has been closed by __aexit__ and another
\* by close(), and an object built with the external client has had both
\* close() and __aexit__ called
C25_Witness ==
  \E i, j, k \in DOMAIN base_clients :
    /\ base_clients[i].given = None /\ base_clients[i].calls = {"__aexit__"}
    /\ is_closed[base_clients[i].http]
    /\ base_clients[j].given = None /\ base_clients[j].calls = {"close"}
    /\ is_closed[base_clients[j].http]
    /\ base_clients[k].given = External
    /\ base_clients[k].calls = {"close", "__aexit__"}
    /\ ~is_closed[ExternalHttp]


\* the string is one claim-number marker, as the group of SPLIT_RE matches it
IsClaimMarker(string) ==
  string # None /\ string # <<>> /\ MarkerEnd(string, 1) = Len(string) + 1

\* C26: when the text without its intro has a claim marker, the first element
\* of every pair _split_and_clean_claims loops over is a claim-number marker,
\* and the text before the first marker is in none of the pairs: the strings
\* paired are those after the first one of the split.
C26_PairsStartWithMarker ==
  (pc # "call" /\ claim_text # <<>>) =>
    LET cleaned    == CLAIM_INTRO_RE_sub(claim_text)
        pieces     == SPLIT_RE_split(cleaned)
        claim_strs == [i \in 1..Len(pieces) |-> strip(pieces[i])]
        grouped    == Grouped(claim_text)
    IN  SPLIT_RE_search(cleaned, 1) # 0 =>
          /\ \A g \in 1..Len(grouped) : IsClaimMarker(grouped[g][1])
          /\ DropNonNumeric(claim_strs) = Tail(claim_strs)


\* C28: every call of download_pdf returns or raises in the end, when every
\* request is answered and every print job reaches a final status.
C28_DownloadPdfEnds ==
  \A t \in Tasks : <>(print_at[t] \in {"returned", "raised"})


C30_RequestedInOneBatch ==
  requested_again = {}

===========================================================================
